---- MODULE Spec2Model ----
(***************************************************************************)
(* A model of the jsonpp evaluator: the JsonPP value tree, the path        *)
(* algebra, the builtins reached through Dynamic::resolve, preprocess,     *)
(* the resolve loop of evaluate_raw and the projection to JSON.            *)
(*                                                                         *)
(* Strings (String payloads and object keys) are sequences of one-char     *)
(* strings, so that ref_chain, len and merge work on their characters.     *)
(* Identifier names are atoms: the evaluator only compares them.           *)
(* A panic is the value Panic(msg); Option::None is the value None.        *)
(***************************************************************************)
EXTENDS Integers, Sequences, FiniteSets, TLC

VARIABLES
    input,          \* the parsed tree handed to evaluate
    root,           \* evaluate_raw: root
    dynamic_paths,  \* evaluate_raw: dynamic_paths (the pending set)
    cloned,         \* evaluate_raw: dynamic_paths.clone(), the set the for loop walks
    todo,           \* paths of cloned not visited yet
    progressing,    \* evaluate_raw: progressing
    pc,             \* "start", "loop", "iter", "project", "done", "panic"
    err,            \* the panic message once pc = "panic"
    output,         \* the serde_json::Value returned by evaluate
    last,           \* the resolve call made by the latest step, if any
    resolves,       \* number of resolve calls made so far
    refs_fetched,   \* the refs to a literal target resolved so far: target path and value
    ma_self,        \* make_absolute called on its own: self_path
    ma_target,      \* make_absolute called on its own: target_path
    ma_out          \* make_absolute called on its own: the path returned

pathvars == <<ma_self, ma_target, ma_out>>
vars == <<input, root, dynamic_paths, cloned, todo, progressing, pc, err, output, last, resolves,
          refs_fetched, ma_self, ma_target, ma_out>>

(***************************************************************************)
(* JsonPP values                                                           *)
(***************************************************************************)
Null == [k |-> "Null", v |-> 0]
Undefined == [k |-> "Undefined", v |-> 0]
Bool(b) == [k |-> "Bool", v |-> b]
IntV(n) == [k |-> "Int", v |-> n]
\* a Float n/d in lowest terms with d > 0; d = 0 is +inf (n = 1), -inf (n = -1), NaN (n = 0)
FloatV(n, d) == [k |-> "Float", v |-> [n |-> n, d |-> d]]
String(s) == [k |-> "String", v |-> s]
Array(a) == [k |-> "Array", v |-> a]
Object(o) == [k |-> "Object", v |-> o]
Identifier(s) == [k |-> "Identifier", v |-> s]
Definition(vs, t) == [k |-> "Definition", v |-> [vars |-> vs, template |-> t]]
Dynamic(a, p, d) == [k |-> "Dynamic", v |-> [args |-> a, path |-> p, dependencies |-> d]]

\* Dynamic { args, ..Default::default() }
DynamicOf(a) == Dynamic(a, <<>>, <<>>)

Panic(msg) == [k |-> "Panic", v |-> msg]
None == [k |-> "None", v |-> 0]
IsPanic(x) == x.k = "Panic"

EmptyMap == [q \in {} |-> Null]

(***************************************************************************)
(* Paths                                                                   *)
(***************************************************************************)
Parent == [c |-> "Parent", s |-> <<>>, n |-> 0]
Key(s) == [c |-> "Key", s |-> s, n |-> 0]
Index(n) == [c |-> "Index", s |-> <<>>, n |-> n]
Argument(n) == [c |-> "Argument", s |-> <<>>, n |-> n]

Pop(s) == IF Len(s) = 0 THEN s ELSE SubSeq(s, 1, Len(s) - 1)

starts_with(p, prefix) ==
    /\ Len(prefix) <= Len(p)
    /\ SubSeq(p, 1, Len(prefix)) = prefix

RECURSIVE make_absolute_rest(_, _, _)
make_absolute_rest(out, target_path, i) ==
    IF i > Len(target_path) THEN out
    ELSE IF target_path[i] = Parent
         THEN make_absolute_rest(Pop(out), target_path, i + 1)
         ELSE make_absolute_rest(Append(out, target_path[i]), target_path, i + 1)

\* make_absolute without the skip(1): the leading Parent pops as well
make_absolute_noskip(self_path, target_path) ==
    IF Len(target_path) > 0 /\ target_path[1] = Parent
    THEN make_absolute_rest(self_path, target_path, 1)
    ELSE target_path

make_absolute(self_path, target_path) ==
    IF Len(target_path) > 0 /\ target_path[1] = Parent
    THEN make_absolute_rest(self_path, target_path, 2)
    ELSE target_path

(***************************************************************************)
(* ref_chain: the reference-string mini-language                           *)
(***************************************************************************)
Digits == {"0", "1", "2", "3", "4", "5", "6", "7", "8", "9"}

DigitVal(ch) ==
    CASE ch = "0" -> 0 [] ch = "1" -> 1 [] ch = "2" -> 2 [] ch = "3" -> 3
      [] ch = "4" -> 4 [] ch = "5" -> 5 [] ch = "6" -> 6 [] ch = "7" -> 7
      [] ch = "8" -> 8 [] OTHER -> 9

RECURSIVE digits_value(_, _)
digits_value(s, acc) ==
    IF Len(s) = 0 THEN acc
    ELSE digits_value(Tail(s), acc * 10 + DigitVal(Head(s)))

\* str::parse::<usize>: an optional '+', then one or more digits; -1 stands for Err
parse_usize(s) ==
    LET body == IF Len(s) > 0 /\ s[1] = "+" THEN Tail(s) ELSE s
    IN IF Len(body) > 0 /\ \A i \in 1..Len(body) : body[i] \in Digits
       THEN digits_value(body, 0)
       ELSE -1

\* str::split("."): the pieces between the dots, empty pieces kept
RECURSIVE split_dots(_, _, _)
split_dots(s, cur, acc) ==
    IF Len(s) = 0 THEN Append(acc, cur)
    ELSE IF Head(s) = "."
         THEN split_dots(Tail(s), <<>>, Append(acc, cur))
         ELSE split_dots(Tail(s), Append(cur, Head(s)), acc)

\* what stands for a piece whose bracketed number does not parse (unwrap panics there)
BadChunk == [c |-> "Bad", s |-> <<>>, n |-> 0]

\* a parser of pieces without Parent: every piece, the empty one too, is a key
ref_chunk_key(chunk) == Key(chunk)

\* one piece of the reference string
ref_chunk(chunk) ==
    IF Len(chunk) = 0 THEN Parent
    ELSE IF chunk[1] = "[" /\ chunk[Len(chunk)] = "]"
    THEN LET inner == SubSeq(chunk, 2, Len(chunk) - 1)
         IN IF parse_usize(inner) < 0 THEN BadChunk ELSE Index(parse_usize(inner))
    ELSE IF chunk[1] = "(" /\ chunk[Len(chunk)] = ")"
    THEN LET inner == SubSeq(chunk, 2, Len(chunk) - 1)
         IN IF parse_usize(inner) < 0 THEN BadChunk ELSE Argument(parse_usize(inner))
    ELSE Key(chunk)

ref_chain(path) ==
    LET pieces == split_dots(path, <<>>, <<>>)
    IN [i \in 1..Len(pieces) |-> ref_chunk(pieces[i])]

\* ref_chain panics on the reference string
ref_chain_panics(path) ==
    \E i \in 1..Len(ref_chain(path)) : ref_chain(path)[i] = BadChunk

(***************************************************************************)
(* Tree access                                                             *)
(***************************************************************************)
\* Some(node) is the node itself, None is None; a Parent chunk panics
RECURSIVE abs_fetch(_, _)
abs_fetch(path, node) ==
    IF Len(path) = 0 THEN node
    ELSE LET next == Head(path)
             rest == Tail(path)
         IN CASE next.c = "Parent" -> Panic("Absolute path fetching needs an absolute path")
              [] next.c = "Key" ->
                    IF node.k # "Object" THEN None
                    ELSE IF next.s \notin DOMAIN node.v THEN None
                    ELSE abs_fetch(rest, node.v[next.s])
              [] next.c = "Index" ->
                    IF node.k # "Array" THEN None
                    ELSE IF next.n >= Len(node.v) THEN None
                    ELSE abs_fetch(rest, node.v[next.n + 1])
              [] OTHER ->
                    IF node.k # "Dynamic" THEN None
                    ELSE IF next.n >= Len(node.v.args) THEN None
                    ELSE abs_fetch(rest, node.v.args[next.n + 1])

\* insert that puts the value in the place of the whole tree
insert_at_root(path, node, value) == value

\* the new root, or Panic
RECURSIVE insert(_, _, _)
insert(path, node, value) ==
    IF Len(path) = 0 THEN value
    ELSE LET next == Head(path)
             rest == Tail(path)
         IN CASE next.c = "Parent" ->
                    Panic("You are not supposed to have a parent in the path when inserting")
              [] next.c = "Key" ->
                    IF node.k # "Object" THEN Panic("Accessing with a key")
                    ELSE IF next.s \notin DOMAIN node.v THEN Panic("unwrap on None")
                    ELSE LET sub == insert(rest, node.v[next.s], value)
                         IN IF IsPanic(sub) THEN sub
                            ELSE Object([node.v EXCEPT ![next.s] = sub])
              [] next.c = "Index" ->
                    IF node.k # "Array" THEN Panic("Accessing with an index")
                    ELSE IF next.n >= Len(node.v) THEN Panic("index out of bounds")
                    ELSE LET sub == insert(rest, node.v[next.n + 1], value)
                         IN IF IsPanic(sub) THEN sub
                            ELSE Array([node.v EXCEPT ![next.n + 1] = sub])
              [] OTHER ->
                    IF node.k # "Dynamic" THEN Panic("Accessing with an argument")
                    ELSE IF next.n >= Len(node.v.args) THEN Panic("index out of bounds")
                    ELSE LET sub == insert(rest, node.v.args[next.n + 1], value)
                         IN IF IsPanic(sub) THEN sub
                            ELSE Dynamic([node.v.args EXCEPT ![next.n + 1] = sub],
                                         node.v.path, node.v.dependencies)

\* a test that finds no Dynamic anywhere
contains_dynamics_never(target) == FALSE

\* a check that looks at the target itself and not into its Arrays and Objects
contains_dynamics_shallow(target) == target.k = "Dynamic"

RECURSIVE contains_dynamics(_)
contains_dynamics(target) ==
    CASE target.k = "Dynamic" -> TRUE
      [] target.k = "Array" -> \E i \in 1..Len(target.v) : contains_dynamics(target.v[i])
      [] target.k = "Object" -> \E key \in DOMAIN target.v : contains_dynamics(target.v[key])
      [] OTHER -> FALSE

(***************************************************************************)
(* Numbers.  An Int is an integer; a Float is an exact fraction, or one    *)
(* of +inf, -inf, NaN (rounding of f64 is not modelled).                   *)
(***************************************************************************)
Abs(n) == IF n < 0 THEN -n ELSE n
Sign(n) == IF n < 0 THEN -1 ELSE IF n > 0 THEN 1 ELSE 0

RECURSIVE Gcd(_, _)
Gcd(a, b) == IF b = 0 THEN a ELSE Gcd(b, a % b)

\* Rust's / and % on i64: the quotient is truncated toward zero
TruncDiv(a, b) == Sign(a) * Sign(b) * (Abs(a) \div Abs(b))
TruncRem(a, b) == a - b * TruncDiv(a, b)

Frac(n, d) ==
    IF d = 0 THEN [n |-> Sign(n), d |-> 0]
    ELSE LET g == Gcd(Abs(n), Abs(d))
         IN [n |-> Sign(d) * (n \div g), d |-> Abs(d) \div g]

IsNaN(f) == f.d = 0 /\ f.n = 0
IsInf(f) == f.d = 0 /\ f.n # 0
NaN == [n |-> 0, d |-> 0]
\* i64 as f64
AsFloat(n) == [n |-> n, d |-> 1]

FAdd(a, b) ==
    IF IsNaN(a) \/ IsNaN(b) THEN NaN
    ELSE IF IsInf(a) /\ IsInf(b) THEN (IF a.n = b.n THEN a ELSE NaN)
    ELSE IF IsInf(a) THEN a
    ELSE IF IsInf(b) THEN b
    ELSE Frac(a.n * b.d + b.n * a.d, a.d * b.d)

FNeg(a) == [n |-> -a.n, d |-> a.d]
FSub(a, b) == FAdd(a, FNeg(b))

FMul(a, b) ==
    IF IsNaN(a) \/ IsNaN(b) THEN NaN
    ELSE IF IsInf(a) \/ IsInf(b) THEN Frac(Sign(a.n) * Sign(b.n), 0)
    ELSE Frac(a.n * b.n, a.d * b.d)

FDiv(a, b) ==
    IF IsNaN(a) \/ IsNaN(b) THEN NaN
    ELSE IF IsInf(a) /\ IsInf(b) THEN NaN
    ELSE IF IsInf(a) THEN Frac(a.n * (IF b.n < 0 THEN -1 ELSE 1), 0)
    ELSE IF IsInf(b) THEN Frac(0, 1)
    ELSE IF b.n = 0 THEN Frac(Sign(a.n), 0)
    ELSE Frac(a.n * b.d, a.d * b.n)

FRem(a, b) ==
    IF IsNaN(a) \/ IsNaN(b) \/ IsInf(a) THEN NaN
    ELSE IF IsInf(b) THEN a
    ELSE IF b.n = 0 THEN NaN
    ELSE LET q == TruncDiv(a.n * b.d, a.d * b.n)
         IN FSub(a, FMul(AsFloat(q), b))

\* a < b on f64: false as soon as one side is NaN
FLess(a, b) ==
    IF IsNaN(a) \/ IsNaN(b) THEN FALSE
    ELSE IF IsInf(a) \/ IsInf(b)
         THEN (IF IsInf(a) /\ IsInf(b) THEN a.n < b.n
               ELSE IF IsInf(a) THEN a.n < 0 ELSE b.n > 0)
    ELSE a.n * b.d < b.n * a.d

FEq(a, b) == ~IsNaN(a) /\ ~IsNaN(b) /\ a = b

\* f64::min / f64::max: the other operand when one is NaN
FMin(a, b) == IF IsNaN(a) THEN b ELSE IF IsNaN(b) THEN a ELSE IF FLess(b, a) THEN b ELSE a
FMax(a, b) == IF IsNaN(a) THEN b ELSE IF IsNaN(b) THEN a ELSE IF FLess(a, b) THEN b ELSE a

RECURSIVE IPow(_, _)
\* i64::pow for an exponent e >= 0
IPow(a, e) == IF e = 0 THEN 1 ELSE a * IPow(a, e - 1)

\* f64::powf for finite operands and an exponent b that holds an integer
FPow(a, b) ==
    IF b.n = 0 THEN Frac(1, 1)
    ELSE IF b.n > 0 THEN Frac(IPow(a.n, b.n), IPow(a.d, b.n))
    ELSE IF a.n = 0 THEN Frac(1, 0)
    ELSE Frac(IPow(a.d, -b.n), IPow(a.n, -b.n))

\* f64::round (halves away from zero) followed by 'as i64', for a finite f
RoundToInt(f) == Sign(f.n) * ((2 * Abs(f.n) + f.d) \div (2 * f.d))

\* the i64 closure of pow_impl
int_pow(a, b) ==
    IF b > 0 THEN IPow(a, b)
    ELSE RoundToInt(FPow(AsFloat(a), AsFloat(b)))

\* the i64 closure a builtin hands to num_reduce; Panic on a zero divisor
int_f(op, a, b) ==
    CASE op = "sum" -> IntV(a + b)
      [] op = "sub" -> IntV(a - b)
      [] op = "mul" -> IntV(a * b)
      [] op = "div" -> IF b = 0 THEN Panic("attempt to divide by zero") ELSE IntV(TruncDiv(a, b))
      [] op = "mod" -> IF b = 0
                       THEN Panic("attempt to calculate the remainder with a divisor of zero")
                       ELSE IntV(TruncRem(a, b))
      [] op = "min" -> IntV(IF a < b THEN a ELSE b)
      [] op = "pow" -> IntV(int_pow(a, b))
      [] OTHER -> IntV(IF a > b THEN a ELSE b)

\* the f64 closure a builtin hands to num_reduce
float_f(op, a, b) ==
    CASE op = "sum" -> FAdd(a, b)
      [] op = "sub" -> FSub(a, b)
      [] op = "mul" -> FMul(a, b)
      [] op = "div" -> FDiv(a, b)
      [] op = "mod" -> FRem(a, b)
      [] op = "min" -> FMin(a, b)
      [] op = "pow" -> FPow(a, b)
      [] OTHER -> FMax(a, b)

\* num_pair_op without the arms that coerce an Int to a Float
num_pair_op_ints(op, first_arg, second_arg) ==
    IF first_arg.k = "Int" /\ second_arg.k = "Int"
    THEN int_f(op, first_arg.v, second_arg.v)
    ELSE Panic("Invalid operands to a numeric function")

num_pair_op(op, first_arg, second_arg) ==
    CASE first_arg.k = "Int" /\ second_arg.k = "Int" -> int_f(op, first_arg.v, second_arg.v)
      [] first_arg.k = "Float" /\ second_arg.k = "Float" ->
            [k |-> "Float", v |-> float_f(op, first_arg.v, second_arg.v)]
      [] first_arg.k = "Float" /\ second_arg.k = "Int" ->
            [k |-> "Float", v |-> float_f(op, first_arg.v, AsFloat(second_arg.v))]
      [] first_arg.k = "Int" /\ second_arg.k = "Float" ->
            [k |-> "Float", v |-> float_f(op, AsFloat(first_arg.v), second_arg.v)]
      [] OTHER -> Panic("Invalid operands to a numeric function")

\* Iterator::reduce: the first operand is the accumulator; unwrap panics on no operand
RECURSIVE num_fold(_, _, _)
num_fold(op, acc, rest) ==
    IF Len(rest) = 0 \/ IsPanic(acc) THEN acc
    ELSE num_fold(op, num_pair_op(op, acc, Head(rest)), Tail(rest))

num_reduce(op, args) ==
    IF Len(args) = 0 THEN Panic("unwrap on None")
    ELSE num_fold(op, Head(args), Tail(args))

sum_impl(args) == num_reduce("sum", args)
mul_impl(args) == num_reduce("mul", args)
min_impl(args) == num_reduce("min", args)
max_impl(args) == num_reduce("max", args)

sub_impl(args) ==
    IF Len(args) # 2 THEN Panic("assertion failed: args.len() == 2")
    ELSE num_reduce("sub", args)

div_impl(args) ==
    IF Len(args) # 2 THEN Panic("assertion failed: args.len() == 2")
    ELSE num_reduce("div", args)

mod_impl(args) ==
    IF Len(args) # 2 THEN Panic("assertion failed: args.len() == 2")
    ELSE num_reduce("mod", args)

\* the operand pairs of pow whose result this model can hold: finite numbers, an
\* exponent that holds an integer, and no Int 0 raised to a negative Int (the cast of
\* inf gives i64::MAX)
pow_covered(a, b) ==
    /\ a.k = "Float" => a.v.d # 0
    /\ b.k = "Float" => b.v.d = 1
    /\ ~(a.k = "Int" /\ b.k = "Int" /\ a.v = 0 /\ b.v < 0)

pow_impl(args) ==
    IF Len(args) # 2 THEN Panic("assertion failed: args.len() == 2")
    ELSE IF /\ args[1].k \in {"Int", "Float"}
            /\ args[2].k \in {"Int", "Float"}
            /\ ~pow_covered(args[1], args[2])
         THEN Panic("builtin not covered by the model")
    ELSE num_reduce("pow", args)

\* cmp is one of "gt", "lt", "gte", "lte"
num_cmp(args, cmp) ==
    IF Len(args) # 2 THEN Panic("assertion failed: args.len() == 2")
    ELSE LET a == args[1]
             b == args[2]
             fa == IF a.k = "Int" THEN AsFloat(a.v) ELSE a.v
             fb == IF b.k = "Int" THEN AsFloat(b.v) ELSE b.v
         IN IF a.k \notin {"Int", "Float"} \/ b.k \notin {"Int", "Float"}
            THEN Panic("Invalid operands to a numeric function")
            ELSE Bool(CASE cmp = "gt" -> FLess(fb, fa)
                        [] cmp = "lt" -> FLess(fa, fb)
                        [] cmp = "gte" -> FLess(fb, fa) \/ FEq(fa, fb)
                        [] OTHER -> FLess(fa, fb) \/ FEq(fa, fb))

(***************************************************************************)
(* The other builtins                                                      *)
(***************************************************************************)
\* the derived PartialEq of JsonPP: structural, with f64 equality on Floats
RECURSIVE value_eq(_, _)
value_eq(a, b) ==
    IF a.k # b.k THEN FALSE
    ELSE CASE a.k = "Float" -> FEq(a.v, b.v)
           [] a.k = "Array" ->
                 /\ Len(a.v) = Len(b.v)
                 /\ \A i \in 1..Len(a.v) : value_eq(a.v[i], b.v[i])
           [] a.k = "Object" ->
                 /\ DOMAIN a.v = DOMAIN b.v
                 /\ \A key \in DOMAIN a.v : value_eq(a.v[key], b.v[key])
           [] a.k = "Definition" ->
                 /\ a.v.vars = b.v.vars
                 /\ value_eq(a.v.template, b.v.template)
           [] a.k = "Dynamic" ->
                 /\ Len(a.v.args) = Len(b.v.args)
                 /\ \A i \in 1..Len(a.v.args) : value_eq(a.v.args[i], b.v.args[i])
                 /\ a.v.path = b.v.path
                 /\ a.v.dependencies = b.v.dependencies
           [] OTHER -> a.v = b.v

\* Bool(TRUE), Bool(FALSE), or Panic
is_truthy(x) ==
    CASE x.k = "Null" -> Bool(FALSE)
      [] x.k = "Bool" -> Bool(x.v)
      [] x.k = "String" -> Bool(Len(x.v) # 0)
      [] x.k = "Int" -> Bool(x.v # 0)
      [] x.k = "Float" -> Bool(~FEq(x.v, Frac(0, 1)))
      [] x.k = "Array" -> Bool(Len(x.v) # 0)
      [] x.k = "Object" -> Bool(DOMAIN x.v # {})
      [] OTHER -> Panic("Cannot evaluate truthiness")

len_impl(args) ==
    IF Len(args) # 1 THEN Panic("assertion failed: args.len() == 1")
    ELSE CASE args[1].k = "String" -> IntV(Len(args[1].v))
           [] args[1].k = "Array" -> IntV(Len(args[1].v))
           [] args[1].k = "Object" -> IntV(Cardinality(DOMAIN args[1].v))
           [] OTHER -> Panic("Trying to get the length of something odd")

ref_impl(args, self_path, tree) ==
    IF Len(args) # 1 THEN Panic("assertion failed: args.len() == 1")
    ELSE IF args[1].k # "String" THEN Panic("Non-string reference")
    ELSE IF ref_chain_panics(args[1].v) THEN Panic("unwrap on Err")
    ELSE LET target_path == ref_chain(args[1].v)
             found == abs_fetch(make_absolute(self_path, target_path), tree)
         IN IF found.k = "None" THEN Panic("unwrap on None") ELSE found

eq_impl(args) ==
    IF Len(args) # 2 THEN Panic("assertion failed: args.len() == 2")
    ELSE Bool(value_eq(args[1], args[2]))

if_impl(args) ==
    IF Len(args) # 3 THEN Panic("assertion failed: args.len() == 3")
    ELSE LET truthy == is_truthy(args[1])
         IN IF IsPanic(truthy) THEN truthy
            ELSE IF truthy.v THEN args[2] ELSE args[3]

range_impl(args) ==
    IF Len(args) # 2 THEN Panic("assertion failed: args.len() == 2")
    ELSE IF args[1].k # "Int" THEN Panic("Range start is not an int")
    ELSE IF args[2].k # "Int" THEN Panic("Range end is not an int")
    ELSE LET start == args[1].v
             end == args[2].v
         IN Array([i \in 1..(IF end > start THEN end - start ELSE 0) |-> IntV(start + i - 1)])

RECURSIVE concat_payloads(_)
concat_payloads(args) ==
    IF Len(args) = 0 THEN <<>>
    ELSE Head(args).v \o concat_payloads(Tail(args))

\* collecting the entries of the operands, in order, into one HashMap: later keys win
RECURSIVE object_merge_fold(_, _)
object_merge_fold(acc, args) ==
    IF Len(args) = 0 THEN acc
    ELSE LET o == Head(args).v
         IN object_merge_fold(
                [key \in DOMAIN acc \cup DOMAIN o |-> IF key \in DOMAIN o THEN o[key] ELSE acc[key]],
                Tail(args))

string_merge_impl(args) == String(concat_payloads(args))
array_merge_impl(args) == Array(concat_payloads(args))
object_merge_impl(args) == Object(object_merge_fold(EmptyMap, args))

merge_impl(args) ==
    IF \A i \in 1..Len(args) : args[i].k = "String" THEN string_merge_impl(args)
    ELSE IF \A i \in 1..Len(args) : args[i].k = "Array" THEN array_merge_impl(args)
    ELSE IF \A i \in 1..Len(args) : args[i].k = "Object" THEN object_merge_impl(args)
    ELSE Panic("Either mismatched array elements or illegal types of elements in merge")

def_impl(args) ==
    IF Len(args) < 2 THEN Panic("assertion failed: args.len() >= 2")
    ELSE IF \E i \in 1..(Len(args) - 1) : args[i].k # "Identifier"
    THEN Panic("Only identifiers allowed for definition parameters")
    ELSE Definition([i \in 1..(Len(args) - 1) |-> args[i].v], args[Len(args)])

\* a map that applies the callable to the first element at every position
map_impl_first(args) ==
    IF Len(args) # 2 THEN Panic("assertion failed: args.len() == 2")
    ELSE CASE args[2].k = "Array" ->
                  Array([i \in 1..Len(args[2].v) |-> DynamicOf(<<args[1], args[2].v[1]>>)])
           [] args[2].k = "Object" ->
                  Object([key \in DOMAIN args[2].v |->
                             DynamicOf(<<args[1], args[2].v[CHOOSE q \in DOMAIN args[2].v : TRUE]>>)])
           [] OTHER -> Panic("Can't map over")

map_impl(args) ==
    IF Len(args) # 2 THEN Panic("assertion failed: args.len() == 2")
    ELSE LET callable == args[1]
             coll == args[2]
         IN CASE coll.k = "Array" ->
                    Array([i \in 1..Len(coll.v) |-> DynamicOf(<<callable, coll.v[i]>>)])
              [] coll.k = "Object" ->
                    Object([key \in DOMAIN coll.v |-> DynamicOf(<<callable, coll.v[key]>>)])
              [] OTHER -> Panic("Can't map over")

\* a filter element with the branches of the if exchanged
filter_element_swapped(callable, el) ==
    DynamicOf(<<Identifier("if"), DynamicOf(<<callable, el>>), Undefined, el>>)

filter_element(callable, el) ==
    LET cond == DynamicOf(<<callable, el>>)
    IN DynamicOf(<<Identifier("if"), cond, el, Undefined>>)

filter_impl(args) ==
    IF Len(args) # 2 THEN Panic("assertion failed: args.len() == 2")
    ELSE LET callable == args[1]
             coll == args[2]
         IN CASE coll.k = "Array" ->
                    Array([i \in 1..Len(coll.v) |-> filter_element(callable, coll.v[i])])
              [] coll.k = "Object" ->
                    Object([key \in DOMAIN coll.v |-> filter_element(callable, coll.v[key])])
              [] OTHER -> Panic("Can't filter over")

\* a fold that nests to the right: (fn e1 (fn e2 e3))
RECURSIVE reduce_fold_right(_, _, _)
reduce_fold_right(callable, acc, rest) ==
    IF Len(rest) = 0 THEN acc
    ELSE DynamicOf(<<callable, acc, reduce_fold_right(callable, Head(rest), Tail(rest))>>)

RECURSIVE reduce_fold(_, _, _)
reduce_fold(callable, acc, rest) ==
    IF Len(rest) = 0 THEN acc
    ELSE reduce_fold(callable, DynamicOf(<<callable, acc, Head(rest)>>), Tail(rest))

reduce_impl(args) ==
    IF Len(args) # 2 THEN Panic("assertion failed: args.len() == 2")
    ELSE IF args[2].k # "Array" THEN Panic("Can't reduce over")
    ELSE IF Len(args[2].v) = 0 THEN Undefined
    ELSE reduce_fold(args[1], Head(args[2].v), Tail(args[2].v))

(***************************************************************************)
(* Template substitution                                                   *)
(***************************************************************************)
\* a substitution that leaves the template as it is
no_substitute(object, sub_table) == object

RECURSIVE recursive_substitute(_, _)
\* recursive_substitute without the Definition arm: nested templates are left alone
recursive_substitute_outer(object, sub_table) ==
    CASE object.k = "Identifier" ->
            IF object.v \in DOMAIN sub_table THEN sub_table[object.v] ELSE object
      [] object.k = "Array" ->
            Array([i \in 1..Len(object.v) |-> recursive_substitute(object.v[i], sub_table)])
      [] object.k = "Object" ->
            Object([key \in DOMAIN object.v |-> recursive_substitute(object.v[key], sub_table)])
      [] object.k = "Dynamic" ->
            Dynamic([i \in 1..Len(object.v.args) |->
                        recursive_substitute(object.v.args[i], sub_table)],
                    object.v.path, object.v.dependencies)
      [] OTHER -> object

recursive_substitute(object, sub_table) ==
    CASE object.k = "Identifier" ->
            IF object.v \in DOMAIN sub_table THEN sub_table[object.v] ELSE object
      [] object.k = "Array" ->
            Array([i \in 1..Len(object.v) |-> recursive_substitute(object.v[i], sub_table)])
      [] object.k = "Object" ->
            Object([key \in DOMAIN object.v |-> recursive_substitute(object.v[key], sub_table)])
      [] object.k = "Definition" ->
            Definition(object.v.vars, recursive_substitute(object.v.template, sub_table))
      [] object.k = "Dynamic" ->
            Dynamic([i \in 1..Len(object.v.args) |->
                        recursive_substitute(object.v.args[i], sub_table)],
                    object.v.path, object.v.dependencies)
      [] OTHER -> object

\* zip(vars, args) collected into a HashMap: the last pair of a repeated name wins
definition_substitution(def, args) ==
    IF Len(def.vars) # Len(args) THEN Panic("assertion failed: def.vars.len() == args.len()")
    ELSE LET names == {def.vars[i] : i \in 1..Len(def.vars)}
             lastOf(name) == CHOOSE i \in 1..Len(def.vars) :
                                /\ def.vars[i] = name
                                /\ \A j \in (i + 1)..Len(def.vars) : def.vars[j] # name
             subs == [name \in names |-> args[lastOf(name)]]
         IN recursive_substitute(def.template, subs)

(***************************************************************************)
(* Dynamic::resolve                                                        *)
(***************************************************************************)
\* the files the run can open: the bytes of each as characters, and the tree
\* Parser::parse builds from them
Files ==
    [path \in {<<"f">>, <<"t">>} |->
        IF path = <<"f">>
        THEN [text |-> <<"{", "n", ":", "(", "s", "u", "m", " ", "1", " ", "2", ")", "}">>,
              tree |-> Object([q \in {<<"n">>} |->
                          DynamicOf(<<Identifier("sum"), IntV(1), IntV(2)>>)])]
        ELSE [text |-> <<" ", "h", "i", "\n">>, tree |-> Identifier("hi")]]

Whitespace == {" ", "\t", "\n", "\r"}

\* str::trim
RECURSIVE trim(_)
trim(text) ==
    IF Len(text) = 0 THEN text
    ELSE IF Head(text) \in Whitespace THEN trim(Tail(text))
    ELSE IF text[Len(text)] \in Whitespace THEN trim(SubSeq(text, 1, Len(text) - 1))
    ELSE text

include_impl(args) ==
    IF Len(args) # 1 THEN Panic("assertion failed: args.len() == 1")
    ELSE IF args[1].k # "String" THEN Panic("Include path is not a string")
    ELSE IF args[1].v \notin DOMAIN Files THEN Panic("unwrap on Err")
    ELSE String(trim(Files[args[1].v].text))

import_impl(args) ==
    IF Len(args) # 1 THEN Panic("assertion failed: args.len() == 1")
    ELSE IF args[1].k # "String" THEN Panic("Import path is not a string")
    ELSE IF args[1].v \notin DOMAIN Files THEN Panic("unwrap on Err")
    ELSE Files[args[1].v].tree

\* builtins of the dispatch table whose bodies this model does not cover
Uncovered == {"log", "str", "int", "float"}

\* dyn is the payload of a Dynamic; the result is a value or Panic
resolve(dyn, path, tree) ==
    IF Len(dyn.args) = 0 THEN Panic("assertion failed: !self.args.is_empty()")
    ELSE LET cmd == Head(dyn.args)
             args == Tail(dyn.args)
         IN CASE cmd.k = "Identifier" ->
                    CASE cmd.v = "sum" -> sum_impl(args)
                      [] cmd.v = "sub" -> sub_impl(args)
                      [] cmd.v = "mul" -> mul_impl(args)
                      [] cmd.v = "div" -> div_impl(args)
                      [] cmd.v = "mod" -> mod_impl(args)
                      [] cmd.v = "pow" -> pow_impl(args)
                      [] cmd.v = "len" -> len_impl(args)
                      [] cmd.v = "ref" -> ref_impl(args, path, tree)
                      [] cmd.v = "min" -> min_impl(args)
                      [] cmd.v = "max" -> max_impl(args)
                      [] cmd.v = "eq" -> eq_impl(args)
                      [] cmd.v \in {"gt", "lt", "gte", "lte"} -> num_cmp(args, cmd.v)
                      [] cmd.v = "if" -> if_impl(args)
                      [] cmd.v = "include" -> include_impl(args)
                      [] cmd.v = "import" -> import_impl(args)
                      [] cmd.v = "range" -> range_impl(args)
                      [] cmd.v = "merge" -> merge_impl(args)
                      [] cmd.v = "def" -> def_impl(args)
                      [] cmd.v = "map" -> map_impl(args)
                      [] cmd.v = "filter" -> filter_impl(args)
                      [] cmd.v = "reduce" -> reduce_impl(args)
                      [] cmd.v \in Uncovered -> Panic("builtin not covered by the model")
                      [] OTHER -> Panic("Unrecognized function")
              [] cmd.k = "Definition" -> definition_substitution(cmd.v, args)
              [] OTHER -> Panic("Cannot call")

is_def(dyn) == dyn.args[1] = Identifier("def")
is_ref(dyn) == dyn.args[1] = Identifier("ref")

(***************************************************************************)
(* preprocess: [dp |-> the pending set afterwards, val |-> the value or a  *)
(* Panic]                                                                  *)
(***************************************************************************)
RECURSIVE preprocess(_, _, _)
RECURSIVE preprocess_args(_, _, _, _)
RECURSIVE preprocess_array(_, _, _, _)
RECURSIVE preprocess_object(_, _, _, _)

\* the operands from index i (0-based) on; acc holds the pending set, the processed
\* operands, the dependencies pushed so far and the first panic met
preprocess_args(path, args, i, acc) ==
    IF i >= Len(args) \/ IsPanic(acc.panic) THEN acc
    ELSE LET inner == preprocess(acc.dp, Append(path, Argument(i)), args[i + 1])
         IN preprocess_args(path, args, i + 1,
                [dp |-> inner.dp,
                 args |-> Append(acc.args, inner.val),
                 deps |-> IF inner.val.k = "Dynamic"
                          THEN Append(acc.deps, <<Parent, Argument(i)>>)
                          ELSE acc.deps,
                 panic |-> IF IsPanic(inner.val) THEN inner.val ELSE acc.panic])

preprocess_array(path, arr, i, acc) ==
    IF i >= Len(arr) \/ IsPanic(acc.panic) THEN acc
    ELSE LET inner == preprocess(acc.dp, Append(path, Index(i)), arr[i + 1])
         IN preprocess_array(path, arr, i + 1,
                [dp |-> inner.dp,
                 items |-> Append(acc.items, inner.val),
                 panic |-> IF IsPanic(inner.val) THEN inner.val ELSE acc.panic])

\* the entries are visited in the HashMap's order; the order is immaterial to the
\* pending set and the values, it only picks the panic reported when several entries panic
preprocess_object(path, obj, keys, acc) ==
    IF keys = {} \/ IsPanic(acc.panic) THEN acc
    ELSE LET key == CHOOSE q \in keys : TRUE
             inner == preprocess(acc.dp, Append(path, Key(key)), obj[key])
         IN preprocess_object(path, obj, keys \ {key},
                [dp |-> inner.dp,
                 items |-> [q \in DOMAIN acc.items \cup {key} |->
                               IF q = key THEN inner.val ELSE acc.items[q]],
                 panic |-> IF IsPanic(inner.val) THEN inner.val ELSE acc.panic])

preprocess(dyn_paths, path, value) ==
    CASE value.k = "Dynamic" ->
            LET done == preprocess_args(path, value.v.args, 0,
                            [dp |-> dyn_paths \cup {path}, args |-> <<>>,
                             deps |-> value.v.dependencies, panic |-> Null])
                dyn_val == [args |-> done.args, path |-> path, dependencies |-> done.deps]
            IN IF IsPanic(done.panic) THEN [dp |-> done.dp, val |-> done.panic]
               ELSE IF Len(dyn_val.args) = 0
               THEN [dp |-> done.dp, val |-> Panic("index out of bounds")]
               ELSE IF is_ref(dyn_val)
               THEN IF Len(dyn_val.args) < 2
                    THEN [dp |-> done.dp, val |-> Panic("index out of bounds")]
                    ELSE CASE dyn_val.args[2].k = "String" ->
                                 IF ref_chain_panics(dyn_val.args[2].v)
                                 THEN [dp |-> done.dp, val |-> Panic("unwrap on Err")]
                                 ELSE [dp |-> done.dp,
                                       val |-> Dynamic(dyn_val.args, path,
                                                   Append(dyn_val.dependencies,
                                                          ref_chain(dyn_val.args[2].v)))]
                           [] dyn_val.args[2].k = "Dynamic" ->
                                 [dp |-> done.dp,
                                  val |-> Dynamic(dyn_val.args, path, dyn_val.dependencies)]
                           [] OTHER -> [dp |-> done.dp, val |-> Panic("Trying to call ref on")]
               ELSE IF is_def(dyn_val)
               THEN [dp |-> {q \in done.dp : ~starts_with(q, path)},
                     val |-> resolve(dyn_val, path, Null)]
               ELSE [dp |-> done.dp, val |-> Dynamic(dyn_val.args, path, dyn_val.dependencies)]
      [] value.k = "Array" ->
            LET done == preprocess_array(path, value.v, 0,
                            [dp |-> dyn_paths, items |-> <<>>, panic |-> Null])
            IN [dp |-> done.dp,
                val |-> IF IsPanic(done.panic) THEN done.panic ELSE Array(done.items)]
      [] value.k = "Object" ->
            LET done == preprocess_object(path, value.v, DOMAIN value.v,
                            [dp |-> dyn_paths, items |-> EmptyMap, panic |-> Null])
            IN [dp |-> done.dp,
                val |-> IF IsPanic(done.panic) THEN done.panic ELSE Object(done.items)]
      [] OTHER -> [dp |-> dyn_paths, val |-> value]

(***************************************************************************)
(* Projection to serde_json::Value.  A JSON value is written with the      *)
(* constructors Null, Bool, IntV, FloatV, String, Array, Object; Err is    *)
(* the failed conversion.                                                  *)
(***************************************************************************)
Err == [k |-> "Err", v |-> 0]

\* a filter_map that loses the first element
keep_ok_tail(items) == IF Len(items) = 0 THEN <<>> ELSE Tail(items)

\* filter_map over the converted elements: the Ok ones, in order
RECURSIVE keep_ok(_)
keep_ok(items) ==
    IF Len(items) = 0 THEN <<>>
    ELSE IF Head(items).k = "Err" THEN keep_ok(Tail(items))
    ELSE <<Head(items)>> \o keep_ok(Tail(items))

\* a projection that turns Undefined into null instead of failing on it
RECURSIVE try_into_null(_)
try_into_null(x) ==
    CASE x.k \in {"Null", "Bool", "String", "Int"} -> x
      [] x.k = "Undefined" -> Null
      [] x.k = "Float" -> IF x.v.d = 0 THEN Null ELSE x
      [] x.k = "Array" -> Array(keep_ok([i \in 1..Len(x.v) |-> try_into_null(x.v[i])]))
      [] x.k = "Object" ->
            LET kept == {key \in DOMAIN x.v : try_into_null(x.v[key]).k # "Err"}
            IN Object([key \in kept |-> try_into_null(x.v[key])])
      [] OTHER -> Err

RECURSIVE try_into(_)
try_into(x) ==
    CASE x.k \in {"Null", "Bool", "String", "Int"} -> x
         \* serde_json::Value::from(f64): a number when finite, null otherwise
      [] x.k = "Float" -> IF x.v.d = 0 THEN Null ELSE x
      [] x.k = "Array" -> Array(keep_ok([i \in 1..Len(x.v) |-> try_into(x.v[i])]))
      [] x.k = "Object" ->
            LET kept == {key \in DOMAIN x.v : try_into(x.v[key]).k # "Err"}
            IN Object([key \in kept |-> try_into(x.v[key])])
      [] OTHER -> Err

(***************************************************************************)
(* evaluate_raw: the liveness of one dependency of the dynamic at dyn_path *)
(***************************************************************************)
\* the walk up the parents of an unfetchable target: Bool(TRUE) or Panic
RECURSIVE nearest_container(_, _)
nearest_container(temp_path, tree) ==
    IF Len(temp_path) = 0 THEN Panic("You are referencing something that doesn't exist")
    ELSE LET found == abs_fetch(temp_path, tree)
         IN IF found.k = "None" THEN nearest_container(Pop(temp_path), tree)
            ELSE IF found.k = "Dynamic" THEN Bool(TRUE)
            ELSE IF IsPanic(found) THEN found
            ELSE Panic("You are referencing something that doesn't exist")

\* a filter closure for which no dependency is ever live
dep_live_never(dyn_path, dyn_val, dep, tree) == Bool(FALSE)

\* the filter closure: Bool(the dependency is live) or Panic
dep_live(dyn_path, dyn_val, dep, tree) ==
    LET path == make_absolute(dyn_path, dep)
        target == abs_fetch(path, tree)
    IN IF IsPanic(target) THEN target
       ELSE IF target.k # "None" THEN Bool(contains_dynamics(target))
       ELSE IF ~is_ref(dyn_val)
       THEN Panic("JsonPP is bugged and is referencing something that doesn't exist")
       ELSE nearest_container(Pop(path), tree)

\* dyn_deps.count(): the number of live dependencies, or -1 when the closure panics
RECURSIVE count_live(_, _, _, _, _)
count_live(dyn_path, dyn_val, deps, tree, n) ==
    IF Len(deps) = 0 THEN n
    ELSE LET live == dep_live(dyn_path, dyn_val, Head(deps), tree)
         IN IF IsPanic(live) THEN -1
            ELSE count_live(dyn_path, dyn_val, Tail(deps), tree, IF live.v THEN n + 1 ELSE n)

\* the panic of the first dependency whose closure panics
RECURSIVE first_panic(_, _, _, _)
first_panic(dyn_path, dyn_val, deps, tree) ==
    LET live == dep_live(dyn_path, dyn_val, Head(deps), tree)
    IN IF IsPanic(live) THEN live.v ELSE first_panic(dyn_path, dyn_val, Tail(deps), tree)

(***************************************************************************)
(* Input trees                                                             *)
(***************************************************************************)
\* the longest array, and the most keys of an object, among the generated inputs
MaxLen == 3

\* Dynamic as the parser builds it: no path, no dependencies
Dyn(a) == Dynamic(a, <<>>, <<>>)
Id(name) == Identifier(name)
Str1(ch) == String(<<ch>>)
a_ == <<"a">>
b_ == <<"b">>
d_ == <<"d">>
v_ == <<"v">>
sq_ == <<"s", "q">>
Obj1(k1, x1) == Object([q \in {k1} |-> x1])
Obj2(k1, x1, k2, x2) == Object([q \in {k1, k2} |-> IF q = k1 THEN x1 ELSE x2])
Ref(s) == Dyn(<<Id("ref"), String(s)>>)

\* leaves of strict JSON; FloatV(1, 0) is what the parser makes of 1e400
PlainAtoms == {Null, Bool(TRUE), IntV(1), FloatV(1, 2), FloatV(1, 0), Str1("a")}
PlainFiniteAtoms == PlainAtoms \ {FloatV(1, 0)}

SeqsUpTo(S, n) == UNION {[1..m -> S] : m \in 0..n}

PlainArrays == {Array(s) : s \in SeqsUpTo(PlainAtoms, MaxLen)}
PlainObjects ==
    {Object(f) : f \in UNION {[K -> PlainAtoms] : K \in {K \in SUBSET {a_, b_, d_} : Cardinality(K) <= MaxLen}}}
PlainNested ==
    {Obj2(a_, Array(<<IntV(1), Obj1(b_, Null)>>), b_, Array(<<>>)),
     Array(<<Array(<<Str1("a")>>), Obj1(a_, Array(<<Bool(FALSE), FloatV(-3, 2)>>))>>)}

\* the trees built only from Null, Bool, Int, Float, String, Array and Object
PlainTrees == PlainAtoms \cup PlainArrays \cup PlainObjects \cup PlainNested

\* inputs with dynamics
RefSibling1 == Obj2(a_, IntV(10), b_, Ref(<<".", "a">>))
RefSibling2 == Obj2(a_, IntV(10), b_, Ref(<<".", ".", "a">>))
RefAbsolute == Obj2(a_, IntV(10), b_, Ref(a_))
RefDangling == Obj2(a_, IntV(10), b_, Ref(d_))
CycleMutual == Obj2(a_, Ref(<<".", "b">>), b_, Ref(<<".", "a">>))
CycleMutualAbs == Obj2(a_, Ref(b_), b_, Ref(a_))
CycleMutualUp == Obj2(a_, Ref(<<".", ".", "b">>), b_, Ref(<<".", ".", "a">>))
CycleSelf == Obj1(a_, Ref(a_))
CycleSelfRel == Obj1(a_, Ref(<<>>))
CycleContainer == Obj1(a_, Array(<<IntV(1), Ref(a_)>>))
CycleOperand == Obj1(a_, Dyn(<<Id("sum"), IntV(1), Ref(a_)>>))
CycleNestedOperand == Obj1(a_, Dyn(<<Id("len"), Array(<<Ref(a_)>>)>>))
LenNested == Obj1(a_, Dyn(<<Id("len"), Array(<<Dyn(<<Id("sum"), IntV(1), IntV(2)>>)>>)>>))
SumNested == Obj2(a_, Dyn(<<Id("sum"), IntV(1), Dyn(<<Id("mul"), IntV(2), IntV(3)>>)>>),
                  b_, Dyn(<<Id("sub"), Dyn(<<Id("div"), IntV(10), IntV(4)>>), Ref(a_)>>))
IfDivZero == Obj1(v_, Dyn(<<Id("if"), Bool(TRUE), IntV(1), Dyn(<<Id("div"), IntV(1), IntV(0)>>)>>))
IfBranches == Obj2(a_, Dyn(<<Id("if"), Dyn(<<Id("lt"), IntV(1), IntV(2)>>),
                             Dyn(<<Id("sum"), IntV(1), IntV(1)>>),
                             Dyn(<<Id("mul"), IntV(3), IntV(3)>>)>>),
                   b_, Dyn(<<Id("if"), Ref(<<".", ".", ".", "a">>), Str1("a"), Null>>))
IfUndefined == Obj1(v_, Dyn(<<Id("if"), Bool(FALSE), IntV(1), Undefined>>))
UndefNested ==
    Array(<<IntV(1), Undefined,
            Obj2(a_, Undefined, b_, Array(<<Undefined, IntV(2), Array(<<Undefined>>)>>)),
            Dyn(<<Id("if"), Null, IntV(7), Undefined>>), IntV(3)>>)
Square == Dyn(<<Id("def"), Id("x"), Dyn(<<Id("mul"), Id("x"), Id("x")>>)>>)
Gt1 == Dyn(<<Id("def"), Id("x"), Dyn(<<Id("gt"), Id("x"), IntV(1)>>)>>)
Same == Dyn(<<Id("def"), Id("x"), Id("x")>>)
Ints123 == Array(<<IntV(1), IntV(2), IntV(3)>>)
DefMap1 == Obj2(d_, Square, sq_, Dyn(<<Id("map"), Ref(<<".", "d">>), Ints123>>))
DefMap3 == Obj2(d_, Square, sq_, Dyn(<<Id("map"), Ref(<<".", ".", ".", "d">>), Ints123>>))
MapObject == Obj1(sq_, Dyn(<<Id("map"), Square, Obj2(a_, IntV(2), b_, IntV(3))>>))
FilterObject == Obj1(sq_, Dyn(<<Id("filter"), Gt1, Obj2(a_, IntV(1), b_, IntV(3))>>))

Scenarios ==
    {RefSibling1, RefSibling2, RefAbsolute, RefDangling, CycleMutual, CycleMutualAbs,
     CycleMutualUp, CycleSelf, CycleSelfRel, CycleContainer, CycleOperand,
     CycleNestedOperand, LenNested, SumNested, IfDivZero, IfBranches, IfUndefined,
     UndefNested, DefMap1, DefMap3, MapObject, FilterObject}

\* arrays with undefined elements
UndefArrays == {Array(s) : s \in SeqsUpTo({IntV(1), Str1("a"), Undefined}, MaxLen)}

\* map and filter over the arrays of a few concrete elements
Elems == {IntV(0), IntV(2), Str1("a")}
MapCallables == {Square, Id("sum")}
FilterCallables == {Gt1, Same}
MapInputs ==
    {Obj1(sq_, Dyn(<<Id("map"), c, Array(s)>>)) : c \in MapCallables, s \in SeqsUpTo(Elems, MaxLen)}
FilterInputs ==
    {Obj1(sq_, Dyn(<<Id("filter"), c, Array(s)>>)) :
        c \in FilterCallables, s \in SeqsUpTo(Elems, MaxLen)}

\* reduce with a two-parameter definition and with a builtin name
Sub2 == Dyn(<<Id("def"), Id("a"), Id("b"), Dyn(<<Id("sub"), Id("a"), Id("b")>>)>>)
ReduceCallables == {Sub2, Id("sum")}
ReduceElems == {IntV(1), IntV(2), IntV(5)}
ReduceInputs ==
    {Obj1(sq_, Dyn(<<Id("reduce"), c, Array(s)>>)) :
        c \in ReduceCallables, s \in SeqsUpTo(ReduceElems, MaxLen)}

\* a ref to a key of the object that another dynamic brings in
imp_ == <<"i", "m", "p">>
n_ == <<"n">>
r_ == <<"r">>
ImportRef ==
    Obj2(imp_, Dyn(<<Id("import"), Str1("f")>>), r_, Ref(<<"i", "m", "p", ".", "n">>))
TemplateRef ==
    Obj2(imp_, Dyn(<<Dyn(<<Id("def"), Id("x"),
                           Obj1(n_, Dyn(<<Id("sum"), Id("x"), IntV(2)>>))>>), IntV(1)>>),
         r_, Ref(<<"i", "m", "p", ".", "n">>))
LateRefInputs == {ImportRef, TemplateRef}

\* refs to what does not exist: below an object, and in a document that is a dynamic
DanglingDeep ==
    Obj2(a_, Obj1(b_, IntV(1)), b_, Ref(<<"a", ".", "d", ".", "d">>))
RootSumRef == Dyn(<<Id("sum"), IntV(1), Ref(d_)>>)
DanglingInputs == {DanglingDeep, RootSumRef}

\* absolute reference strings with an empty piece after the first: in the middle, at the end
MidParent == Obj2(a_, Obj1(b_, IntV(1)), r_, Ref(<<"a", ".", ".", "b">>))
TrailingDot == Obj2(a_, IntV(1), r_, Ref(<<"a", ".">>))
ParentInputs == {MidParent, TrailingDot}

\* refs to a container that a dynamic has to fill first: as the operand of a call that
\* resolves after the ref, and through a second ref
RefContainer ==
    Obj2(a_, Array(<<Dyn(<<Id("sum"), IntV(1), IntV(2)>>), IntV(5)>>),
         r_, Dyn(<<Id("len"), Ref(a_)>>))
RefChain ==
    Obj2(a_, Ref(<<"b", ".", "v">>),
         b_, Obj2(v_, Ref(<<"b", ".", "r">>), r_, Dyn(<<Id("sum"), IntV(1), IntV(2)>>)))
RefDeep ==
    Obj2(a_, Obj1(b_, Array(<<Dyn(<<Id("sum"), IntV(1), IntV(2)>>)>>)),
         r_, Ref(<<"a", ".", "b", ".", "[", "0", "]">>))
StableRefInputs == {RefContainer, RefChain, RefDeep}

\* identifiers outside dynamics: at the root, at a key, in an array
IdentRoot == Id("foo")
IdentNested == Obj2(a_, Id("foo"), b_, Array(<<IntV(1), Id("x")>>))
IdentInputs == {IdentRoot, IdentNested}

\* an if over conditions of every kind
Conds ==
    {Null, Undefined, Bool(FALSE), Bool(TRUE), IntV(0), IntV(2), FloatV(0, 1), FloatV(1, 2),
     FloatV(1, 0), String(<<>>), Str1("a"), Array(<<>>), Array(<<Null>>),
     Object(EmptyMap), Obj1(a_, Null), Id("foo")}
IfInputs == {Obj1(v_, Dyn(<<Id("if"), c, IntV(1), IntV(2)>>)) : c \in Conds}

\* the arithmetic builtins over every operand list up to MaxLen operands
x_ == <<"x">>
NumCall(op, args) == Obj1(x_, Dyn(<<Id(op)>> \o args))
FoldOps == {"sum", "mul", "min", "max"}
FoldElems == {IntV(1), IntV(2), IntV(3), IntV(-4), FloatV(1, 2), Str1("a")}
FoldInputs == {NumCall(op, args) : op \in FoldOps, args \in SeqsUpTo(FoldElems, MaxLen)}
PairOps == {"sub", "div", "mod"}
PairElems == {IntV(10), IntV(4), IntV(0), IntV(-7), FloatV(0, 1), FloatV(5, 2), Str1("a")}
PairInputs ==
    {NumCall(op, args) : op \in PairOps,
                         args \in SeqsUpTo(PairElems, MaxLen - 1)
                                  \cup {<<IntV(10), IntV(4), IntV(0)>>}}

\* keys and values of an object, and of something that is not one
KeysOperands == {Obj2(a_, IntV(1), b_, IntV(1)), Obj1(a_, Str1("b")), Object(EmptyMap), IntV(1)}
KeysInputs == {Obj1(x_, Dyn(<<Id(op), o>>)) : op \in {"keys", "values"}, o \in KeysOperands}

\* pow over Int and Float bases and exponents
PowBases == {IntV(-2), IntV(0), IntV(1), IntV(2), IntV(3), FloatV(2, 1), FloatV(1, 2), FloatV(0, 1)}
PowExponents == {IntV(-2), IntV(-1), IntV(0), IntV(1), IntV(2), IntV(3), FloatV(2, 1), FloatV(-1, 1)}
PowInputs ==
    {NumCall("pow", <<a, b>>) : a \in PowBases, b \in PowExponents \cup {Str1("a")}}
    \cup {NumCall("pow", <<IntV(2)>>)}

\* an if that selects a definition while a dynamic sits in an array among its operands
IfDefNested ==
    Obj1(v_, Dyn(<<Id("if"), Bool(TRUE), Square, Array(<<Dyn(<<Id("sum"), IntV(1), IntV(2)>>)>>)>>))
\* a def next to its use as a head, and a def at the root
DefCall == Obj2(d_, Square, v_, Dyn(<<Ref(<<".", ".", ".", "d">>), IntV(3)>>))
DefInputs == {IfDefNested, DefCall, Square}

\* calls whose head is a def: templates with arrays, objects, dynamics and nested
\* defs, with the right number of operands and with a wrong one
Templates ==
    {Dyn(<<Id("def"), Id("x"), Id("y"),
           Array(<<Id("x"), Obj1(a_, Id("y")), Dyn(<<Id("sum"), Id("x"), Id("y")>>), Id("z")>>)>>),
     Dyn(<<Id("def"), Id("x"), Id("y"), Dyn(<<Id("def"), Id("y"), Dyn(<<Id("sub"), Id("x"), Id("y")>>)>>)>>),
     Dyn(<<Id("def"), Id("x"), Id("y"), Dyn(<<Id("sub"), Dyn(<<Id("mul"), Id("x"), Id("x")>>), Id("y")>>)>>),
     Dyn(<<Id("def"), Id("x"), Id("x"), Dyn(<<Id("sum"), Id("x"), IntV(1)>>)>>)}
TemplateOperands == {<<IntV(5), IntV(2)>>, <<IntV(5)>>, <<IntV(5), IntV(2), IntV(1)>>}
TemplateInputs == {Obj1(v_, Dyn(<<t>> \o ops)) : t \in Templates, ops \in TemplateOperands}

\* a definition that calls itself through a ref, and a call of it
f_ == <<"f">>
SelfCall ==
    Obj2(f_, Dyn(<<Id("def"), Id("x"), Dyn(<<Ref(f_), Id("x")>>)>>),
         v_, Dyn(<<Ref(f_), IntV(1)>>))
RecursiveInputs == {SelfCall}

Inputs ==
    PlainTrees \cup Scenarios \cup UndefArrays \cup MapInputs \cup FilterInputs
    \cup ReduceInputs \cup LateRefInputs \cup DanglingInputs
    \cup IdentInputs \cup IfInputs \cup FoldInputs \cup PairInputs
    \cup KeysInputs \cup PowInputs \cup DefInputs \cup TemplateInputs
    \cup RecursiveInputs \cup ParentInputs \cup StableRefInputs

(***************************************************************************)
(* evaluate_raw and evaluate                                               *)
(***************************************************************************)
\* the count of resolve calls stops at MaxResolves
MaxResolves == 24

NoCall == [call |-> FALSE, path |-> <<>>, dyn |-> Null, result |-> Null]
Call(path, dyn, result) == [call |-> TRUE, path |-> path, dyn |-> dyn, result |-> result]

\* the outcome of one pass of the body of the for loop: the tree and the pending set
\* afterwards, whether a dynamic was resolved, the panic message ("" for none) and
\* the resolve call made
Outcome(tree, dyn_paths, msg, call) ==
    [root |-> tree, dp |-> dyn_paths, resolved |-> call.call, panic |-> msg, call |-> call]

\* insert(dyn_path, &mut root, processed), pending being the set left by preprocess
visit_insert(tree, dyn_paths, pending, call, newroot) ==
    IF IsPanic(newroot) THEN Outcome(tree, dyn_paths, newroot.v, call)
    ELSE Outcome(newroot, pending, "", call)

\* visit_processed without dynamic_paths.remove(dyn_path)
visit_processed_keep(tree, dyn_paths, dyn_path, call, pre) ==
    IF IsPanic(pre.val) THEN Outcome(tree, dyn_paths, pre.val.v, call)
    ELSE visit_insert(tree, dyn_paths, pre.dp, call, insert(dyn_path, tree, pre.val))

\* visit_processed with dynamic_paths.remove(dyn_path) whatever the result is
visit_processed_remove(tree, dyn_paths, dyn_path, call, pre) ==
    IF IsPanic(pre.val) THEN Outcome(tree, dyn_paths, pre.val.v, call)
    ELSE visit_insert(tree, dyn_paths, pre.dp \ {dyn_path}, call,
                      insert(dyn_path, tree, pre.val))

\* the result of preprocess, removed from the pending set unless it is a Dynamic
visit_processed(tree, dyn_paths, dyn_path, call, pre) ==
    IF IsPanic(pre.val) THEN Outcome(tree, dyn_paths, pre.val.v, call)
    ELSE visit_insert(tree, dyn_paths,
                      IF pre.val.k # "Dynamic" THEN pre.dp \ {dyn_path} ELSE pre.dp,
                      call, insert(dyn_path, tree, pre.val))

\* call holds the dynamic resolved and the value resolve returned
visit_resolved(tree, dyn_paths, dyn_path, call) ==
    IF IsPanic(call.result) THEN Outcome(tree, dyn_paths, call.result.v, call)
    ELSE visit_processed(tree, dyn_paths, dyn_path, call,
                         preprocess(dyn_paths, dyn_path, call.result))

\* live is dyn_deps.count(), -1 when the filter closure panics
visit_counted(tree, dyn_paths, dyn_path, fetched, live) ==
    IF live < 0
    THEN Outcome(tree, dyn_paths,
                 first_panic(dyn_path, fetched.v, fetched.v.dependencies, tree), NoCall)
    ELSE IF live > 0 THEN Outcome(tree, dyn_paths, "", NoCall)
    ELSE visit_resolved(tree, dyn_paths, dyn_path,
                        Call(dyn_path, fetched, resolve(fetched.v, dyn_path, tree)))

\* fetched is abs_fetch(dyn_path, &root)
visit_fetched(tree, dyn_paths, dyn_path, fetched) ==
    IF fetched.k = "None" THEN Outcome(tree, dyn_paths, "unwrap on None", NoCall)
    ELSE IF IsPanic(fetched) THEN Outcome(tree, dyn_paths, fetched.v, NoCall)
    ELSE IF fetched.k # "Dynamic"
    THEN Outcome(tree, dyn_paths, "Fetching dynamics yields non-dynamic", NoCall)
    ELSE visit_counted(tree, dyn_paths, dyn_path, fetched,
                       count_live(dyn_path, fetched.v, fetched.v.dependencies, tree, 0))

\* the body of the for loop on the pending path dyn_path
visit(tree, dyn_paths, dyn_path) ==
    visit_fetched(tree, dyn_paths, dyn_path, abs_fetch(dyn_path, tree))

Init ==
    /\ input \in Inputs
    /\ root = input
    /\ dynamic_paths = {}
    /\ cloned = {}
    /\ todo = {}
    /\ progressing = FALSE
    /\ pc = "start"
    /\ err = ""
    /\ output = Null
    /\ last = NoCall
    /\ resolves = 0
    /\ refs_fetched = {}
    /\ ma_self = <<>>
    /\ ma_target = <<>>
    /\ ma_out = <<>>

\* evaluate_raw, up to the loop: the pending set is built by preprocess
StartWith(pre) ==
    IF IsPanic(pre.val)
    THEN /\ pc' = "panic"
         /\ err' = pre.val.v
         /\ UNCHANGED <<root, dynamic_paths>>
    ELSE /\ pc' = "loop"
         /\ root' = pre.val
         /\ dynamic_paths' = pre.dp
         /\ UNCHANGED err

Start ==
    /\ pc = "start"
    /\ StartWith(preprocess({}, <<>>, input))
    /\ UNCHANGED <<input, cloned, todo, progressing, output, last, resolves>>
    /\ UNCHANGED <<pathvars, refs_fetched>>

\* the head of the while loop with a pending dynamic: the for loop starts on a clone
BeginIteration ==
    /\ pc = "loop"
    /\ dynamic_paths # {}
    /\ pc' = "iter"
    /\ cloned' = dynamic_paths
    /\ todo' = dynamic_paths
    /\ progressing' = FALSE
    /\ last' = NoCall
    /\ UNCHANGED <<input, root, dynamic_paths, err, output, resolves>>
    /\ UNCHANGED <<pathvars, refs_fetched>>

\* a resolve call of a ref whose target is a string that ref_chain accepts
literal_ref(call) ==
    /\ call.call
    /\ call.dyn.k = "Dynamic"
    /\ Len(call.dyn.v.args) = 2
    /\ is_ref(call.dyn.v)
    /\ call.dyn.v.args[2].k = "String"
    /\ ~ref_chain_panics(call.dyn.v.args[2].v)

\* the path ref_impl hands to abs_fetch
ref_target(call) == make_absolute(call.path, ref_chain(call.dyn.v.args[2].v))

Fetch(target, value) == [target |-> target, value |-> value]

\* the body of the for loop; the HashSet yields the paths of the clone in any order
VisitWith(dyn_path, r) ==
    /\ root' = r.root
    /\ dynamic_paths' = r.dp
    /\ progressing' = (progressing \/ r.resolved)
    /\ last' = r.call
    /\ resolves' = IF r.call.call /\ resolves < MaxResolves THEN resolves + 1 ELSE resolves
    /\ refs_fetched' = IF r.panic = "" /\ literal_ref(r.call)
                       THEN refs_fetched \cup {Fetch(ref_target(r.call), r.call.result)}
                       ELSE refs_fetched
    /\ IF r.panic # ""
       THEN pc' = "panic" /\ err' = r.panic /\ todo' = todo
       ELSE pc' = "iter" /\ err' = err /\ todo' = todo \ {dyn_path}

Visit(dyn_path) ==
    /\ pc = "iter"
    /\ dyn_path \in todo
    /\ VisitWith(dyn_path, visit(root, dynamic_paths, dyn_path))
    /\ UNCHANGED <<input, cloned, output>>
    /\ UNCHANGED pathvars

\* the end of the for loop
EndIteration ==
    /\ pc = "iter"
    /\ todo = {}
    /\ IF progressing
       THEN pc' = "loop" /\ err' = err
       ELSE pc' = "panic" /\ err' = "Reference cycle"
    /\ last' = NoCall
    /\ UNCHANGED <<input, root, dynamic_paths, cloned, todo, progressing, output, resolves>>
    /\ UNCHANGED <<pathvars, refs_fetched>>

\* the while loop ends: evaluate_raw returns root
Return ==
    /\ pc = "loop"
    /\ dynamic_paths = {}
    /\ pc' = "project"
    /\ UNCHANGED <<input, root, dynamic_paths, cloned, todo, progressing, err, output, last, resolves>>
    /\ UNCHANGED <<pathvars, refs_fetched>>

\* evaluate: root.clone().try_into()
ProjectWith(out) ==
    IF out.k = "Err"
    THEN /\ pc' = "panic"
         /\ err' = "No dynamics left and still can't make it into serde_json::Value"
         /\ output' = output
    ELSE /\ pc' = "done"
         /\ err' = err
         /\ output' = out

Project ==
    /\ pc = "project"
    /\ ProjectWith(try_into(root))
    /\ UNCHANGED <<input, root, dynamic_paths, cloned, todo, progressing, last, resolves>>
    /\ UNCHANGED <<pathvars, refs_fetched>>

Next ==
    \/ Start
    \/ BeginIteration
    \/ \E dyn_path \in todo : Visit(dyn_path)
    \/ EndIteration
    \/ Return
    \/ Project

Spec == Init /\ [][Next]_vars

(***************************************************************************)
(* make_absolute on its own, as paths::tests calls it                      *)
(***************************************************************************)
MaxPath == 3
Foo == <<"F", "o", "o">>
Bar == <<"B", "a", "r">>
Baz == <<"B", "a", "z">>
Chunks == {Parent, Key(Foo), Key(Bar), Key(Baz), Index(0), Argument(1)}
SelfPaths == SeqsUpTo(Chunks, MaxPath - 1)
TargetPaths == SeqsUpTo(Chunks, MaxPath)

evalvars == <<input, root, dynamic_paths, cloned, todo, progressing, err, output, last, resolves,
              refs_fetched>>

PathInit ==
    /\ ma_self \in SelfPaths
    /\ ma_target \in TargetPaths
    /\ ma_out = <<>>
    /\ pc = "call"
    /\ input = Null
    /\ root = Null
    /\ dynamic_paths = {}
    /\ cloned = {}
    /\ todo = {}
    /\ progressing = FALSE
    /\ err = ""
    /\ output = Null
    /\ last = NoCall
    /\ resolves = 0
    /\ refs_fetched = {}

MakeAbsolute ==
    /\ pc = "call"
    /\ ma_out' = make_absolute(ma_self, ma_target)
    /\ pc' = "returned"
    /\ UNCHANGED <<ma_self, ma_target>>
    /\ UNCHANGED evalvars

PathNext == MakeAbsolute

PathSpec == PathInit /\ [][PathNext]_vars

(***************************************************************************)
(* Properties of evaluate                                                  *)
(***************************************************************************)
RECURSIVE IsPlain(_)
\* x is built only from Null, Bool, Int, Float, String, Array and Object
IsPlain(x) ==
    CASE x.k \in {"Null", "Bool", "Int", "Float", "String"} -> TRUE
      [] x.k = "Array" -> \A i \in DOMAIN x.v : IsPlain(x.v[i])
      [] x.k = "Object" -> \A key \in DOMAIN x.v : IsPlain(x.v[key])
      [] OTHER -> FALSE

RECURSIVE FiniteFloats(_)
\* no Float of the plain tree x is an infinity or NaN
FiniteFloats(x) ==
    CASE x.k = "Float" -> x.v.d # 0
      [] x.k = "Array" -> \A i \in DOMAIN x.v : FiniteFloats(x.v[i])
      [] x.k = "Object" -> \A key \in DOMAIN x.v : FiniteFloats(x.v[key])
      [] OTHER -> TRUE

\* the run of a tree without dynamics: nothing pending, no resolve, no failure, and
\* the input comes back
PlainRun ==
    /\ pc \in {"start", "loop", "project", "done"}
    /\ dynamic_paths = {}
    /\ resolves = 0
    /\ pc = "done" => output = input

\* C1 as stated: for every input tree built only from Null, Bool, Int, Float, String,
\* Array and Object nodes, evaluate finds an empty pending set, performs no resolve
\* step and returns a JSON value structurally equal to the input.
C1_PlainIdentityAnyFloat == IsPlain(input) => PlainRun

\* C1, amended: for every input tree built only from Null, Bool, Int, finite Float,
\* String, Array and Object nodes, evaluate finds an empty pending set, performs no
\* resolve step and returns a JSON value structurally equal to the input.
C1_PlainIdentity == (IsPlain(input) /\ FiniteFloats(input)) => PlainRun

\* a nested tree without dynamics came back as it was
C1_Witness ==
    /\ input = Obj2(a_, Array(<<IntV(1), Obj1(b_, Null)>>), b_, Array(<<>>))
    /\ pc = "done"
    /\ output = input

Ten10 == Obj2(a_, IntV(10), b_, IntV(10))

CycleInputs ==
    {CycleMutual, CycleMutualAbs, CycleMutualUp, CycleSelf, CycleSelfRel, CycleContainer,
     CycleOperand, CycleNestedOperand}

\* C3: for every input whose dynamics depend on each other cyclically the run ends
\* with the 'Reference cycle' failure raised by an iteration that resolved nothing;
\* it never returns a result and never fails with a different error.
C3_ReferenceCycle ==
    input \in CycleInputs =>
        /\ pc \notin {"project", "done"}
        /\ pc = "panic" => (err = "Reference cycle" /\ ~progressing)

RECURSIVE UsesFiles(_)
\* an import or an include occurs in x
UsesFiles(x) ==
    CASE x.k = "Identifier" -> x.v \in {"import", "include"}
      [] x.k = "Dynamic" -> \E i \in DOMAIN x.v.args : UsesFiles(x.v.args[i])
      [] x.k = "Array" -> \E i \in DOMAIN x.v : UsesFiles(x.v[i])
      [] x.k = "Object" -> \E key \in DOMAIN x.v : UsesFiles(x.v[key])
      [] OTHER -> FALSE

\* what a caller of evaluate observes: the JSON value, or the fact that it failed
Failed == [ok |-> FALSE, out |-> Null]
Returned(out) == IF out.k = "Err" THEN Failed ELSE [ok |-> TRUE, out |-> out]

RECURSIVE run_while(_, _)
RECURSIVE run_for(_, _, _, _)
RECURSIVE run_visit(_, _, _, _)
\* one run of the loops of evaluate_raw in which every for loop visits the pending
\* paths in one fixed order
run_while(tree, dyn_paths) ==
    IF dyn_paths = {} THEN Returned(try_into(tree))
    ELSE run_for(tree, dyn_paths, dyn_paths, FALSE)

run_for(tree, dyn_paths, rest, progress) ==
    IF rest = {} THEN IF progress THEN run_while(tree, dyn_paths) ELSE Failed
    ELSE run_visit((CHOOSE q \in rest : TRUE), rest, progress,
                   visit(tree, dyn_paths, CHOOSE q \in rest : TRUE))

run_visit(dyn_path, rest, progress, r) ==
    IF r.panic # "" THEN Failed
    ELSE run_for(r.root, r.dp, rest \ {dyn_path}, progress \/ r.resolved)

run_start(pre) == IF IsPanic(pre.val) THEN Failed ELSE run_while(pre.val, pre.dp)

\* C4: for every input tree that uses no import/include, the outcome of evaluate (the
\* resulting JSON value, or the fact that it fails) is the same for every order in
\* which the pending paths are visited: every finished run has the outcome of the
\* run that visits them in the fixed order.
C4_OrderIndependent ==
    (~UsesFiles(input) /\ pc \in {"done", "panic"}) =>
        [ok |-> pc = "done", out |-> output] = run_start(preprocess({}, <<>>, input))

\* C5: whenever the resolve loop calls resolve on a dynamic, every element of its
\* args (head and operands) is concrete: none is a Dynamic and none is an Array or
\* Object that transitively contains a Dynamic.
C5_ConcreteArgs ==
    last.call => \A i \in DOMAIN last.dyn.v.args : ~contains_dynamics(last.dyn.v.args[i])

\* the resolve call c is one of an (if c t e)
IsIfCall(c) ==
    /\ c.call
    /\ c.dyn.v.args[1].k = "Identifier"
    /\ c.dyn.v.args[1].v = "if"

\* C6: an (if c t e) dynamic is never resolved while c, t or e is still an unresolved
\* dynamic, and {"v": (if true 1 (div 1 0))} fails with the division-by-zero error in
\* every visiting order and never yields a result.
C6_IfWaitsForBranches ==
    /\ IsIfCall(last) =>
          \A i \in 2..Len(last.dyn.v.args) : last.dyn.v.args[i].k # "Dynamic"
    /\ input = IfDivZero =>
          /\ pc \notin {"project", "done"}
          /\ pc = "panic" => err = "attempt to divide by zero"

\* the run of {"v": (if true 1 (div 1 0))} failed on the division, the if still pending
C6_Witness ==
    /\ input = IfDivZero
    /\ pc = "panic"
    /\ err = "attempt to divide by zero"
    /\ <<Key(v_)>> \in dynamic_paths
    /\ abs_fetch(<<Key(v_)>>, root).k = "Dynamic"

RECURSIVE NoUndefined(_)
\* the JSON value x holds no Undefined at any depth
NoUndefined(x) ==
    CASE x.k = "Undefined" -> FALSE
      [] x.k = "Array" -> \A i \in DOMAIN x.v : NoUndefined(x.v[i])
      [] x.k = "Object" -> \A key \in DOMAIN x.v : NoUndefined(x.v[key])
      [] OTHER -> TRUE

RECURSIVE JsonOrUndefined(_)
\* x is built only from Undefined and the nodes of JSON, every Float finite
JsonOrUndefined(x) ==
    CASE x.k \in {"Null", "Bool", "Int", "String", "Undefined"} -> TRUE
      [] x.k = "Float" -> x.v.d # 0
      [] x.k = "Array" -> \A i \in DOMAIN x.v : JsonOrUndefined(x.v[i])
      [] x.k = "Object" -> \A key \in DOMAIN x.v : JsonOrUndefined(x.v[key])
      [] OTHER -> FALSE

RECURSIVE Elide(_)
RECURSIVE ElideSeq(_)
\* x without the keys whose value is Undefined and without the elements that are
\* Undefined, the other elements in their order
Elide(x) ==
    CASE x.k = "Array" -> Array(ElideSeq(x.v))
      [] x.k = "Object" ->
            Object([key \in {q \in DOMAIN x.v : x.v[q].k # "Undefined"} |-> Elide(x.v[key])])
      [] OTHER -> x

ElideSeq(items) ==
    IF Len(items) = 0 THEN <<>>
    ELSE IF Head(items).k = "Undefined" THEN ElideSeq(Tail(items))
    ELSE <<Elide(Head(items))>> \o ElideSeq(Tail(items))

\* C7: the JSON value returned by evaluate contains no Undefined at any depth: a key
\* whose final value is Undefined is absent, an array element whose final value is
\* Undefined is removed with the remaining elements keeping their order;
\* {"v": (if false 1 undefined)} yields {}.
C7_UndefinedElided ==
    /\ pc = "done" =>
          /\ NoUndefined(output)
          /\ JsonOrUndefined(root) => output = Elide(root)
    /\ input = IfUndefined =>
          /\ pc # "panic"
          /\ pc = "done" => output = Object(EmptyMap)

\* undefined was removed from a nested array, from an object and from the place of
\* a resolved if
C7_Witness ==
    /\ input = UndefNested
    /\ pc = "done"
    /\ output = Array(<<IntV(1), Obj1(b_, Array(<<IntV(2), Array(<<>>)>>)), IntV(3)>>)

Squares149 == Obj1(sq_, Array(<<IntV(1), IntV(4), IntV(9)>>))

RECURSIVE Eval(_)
\* the value of the expression x, whose dynamics refer to nothing outside it: the
\* operands first, then the dynamic itself, then what it resolved to
Eval(x) ==
    IF x.k # "Dynamic" THEN x
    ELSE LET args == [i \in DOMAIN x.v.args |-> Eval(x.v.args[i])]
         IN IF \E i \in DOMAIN args : IsPanic(args[i])
            THEN Panic("operand")
            ELSE Eval(resolve([x.v EXCEPT !.args = args], <<>>, Null))

\* the callable c of an input, as the tree holds it once preprocessed
Callable(c) == preprocess({}, <<>>, c).val

\* the chunk that leads from a container to its position pos
ChunkAt(coll, pos) == IF coll.k = "Array" THEN Index(pos - 1) ELSE Key(pos)

\* the resolve call c is one of a map with a Definition or a name over a container of
\* concrete values
IsMapCall(c) ==
    /\ c.call
    /\ c.dyn.v.args[1].k = "Identifier"
    /\ c.dyn.v.args[1].v = "map"
    /\ Len(c.dyn.v.args) = 3
    /\ c.dyn.v.args[2].k \in {"Definition", "Identifier"}
    /\ c.dyn.v.args[3].k \in {"Array", "Object"}
    /\ ~contains_dynamics(c.dyn.v.args[3])

\* what the map of fn over the container coll comes to
Mapped(fn, coll) ==
    [k |-> coll.k, v |-> [pos \in DOMAIN coll.v |-> Eval(DynamicOf(<<fn, coll.v[pos]>>))]]

\* C9: a map over a container of concrete values resolves to a container of the same
\* length / key set in which every element e is the new dynamic (fn e); each of these
\* enters the pending set after the map resolves, and the final value has at every
\* position the result of evaluating (fn e) for the element originally there.
C9_MapShape ==
    /\ (IsMapCall(last) /\ pc = "iter") =>
          /\ last.result.k = last.dyn.v.args[3].k
          /\ DOMAIN last.result.v = DOMAIN last.dyn.v.args[3].v
          /\ \A pos \in DOMAIN last.dyn.v.args[3].v :
                /\ last.result.v[pos]
                      = DynamicOf(<<last.dyn.v.args[2], last.dyn.v.args[3].v[pos]>>)
                /\ Append(last.path, ChunkAt(last.result, pos)) \in dynamic_paths
                /\ abs_fetch(Append(last.path, ChunkAt(last.result, pos)), root).k = "Dynamic"
                /\ abs_fetch(Append(last.path, ChunkAt(last.result, pos)), root).v.args
                      = <<last.dyn.v.args[2], last.dyn.v.args[3].v[pos]>>
    /\ input \in MapInputs \cup {MapObject} =>
          /\ pc = "done" =>
                output = Obj1(sq_, Mapped(Callable(input.v[sq_].v.args[2]),
                                          input.v[sq_].v.args[3]))
          /\ pc = "panic" =>
                \E pos \in DOMAIN input.v[sq_].v.args[3].v :
                    IsPanic(Mapped(Callable(input.v[sq_].v.args[2]),
                                   input.v[sq_].v.args[3]).v[pos])

\* the squares of [2, 0] came out in the positions of 2 and 0
C9_Witness ==
    /\ input = Obj1(sq_, Dyn(<<Id("map"), Square, Array(<<IntV(2), IntV(0)>>)>>))
    /\ pc = "done"
    /\ output = Obj1(sq_, Array(<<IntV(4), IntV(0)>>))

RECURSIVE Kept(_, _)
\* the elements e of items for which (fn e) is truthy, in their order
Kept(fn, items) ==
    IF Len(items) = 0 THEN <<>>
    ELSE IF is_truthy(Eval(DynamicOf(<<fn, Head(items)>>))).v
    THEN <<Head(items)>> \o Kept(fn, Tail(items))
    ELSE Kept(fn, Tail(items))

\* (fn e) has a truth value for every element e of items
Decided(fn, items) ==
    \A i \in DOMAIN items :
        /\ ~IsPanic(Eval(DynamicOf(<<fn, items[i]>>)))
        /\ ~IsPanic(is_truthy(Eval(DynamicOf(<<fn, items[i]>>))))

\* C10: for a filter over an array of concrete values, the projected output array
\* consists of exactly those elements e for which (fn e) is truthy, in their original
\* relative order; every element for which (fn e) is falsy is absent.
C10_FilterKeeps ==
    input \in FilterInputs =>
        /\ pc = "done" =>
              /\ Decided(Callable(input.v[sq_].v.args[2]), input.v[sq_].v.args[3].v)
              /\ output = Obj1(sq_, Array(Kept(Callable(input.v[sq_].v.args[2]),
                                               input.v[sq_].v.args[3].v)))
        /\ pc = "panic" =>
              ~Decided(Callable(input.v[sq_].v.args[2]), input.v[sq_].v.args[3].v)

\* of [0, 2] the filter by x > 1 kept 2 alone
C10_Witness ==
    /\ input = Obj1(sq_, Dyn(<<Id("filter"), Gt1, Array(<<IntV(0), IntV(2)>>)>>))
    /\ pc = "done"
    /\ output = Obj1(sq_, Array(<<IntV(2)>>))

\* the sequence s without its last element
Front(s) == SubSeq(s, 1, Len(s) - 1)

RECURSIVE LeftNested(_, _)
\* (fn (... (fn (fn e1 e2) e3) ...) en) for the non-empty items e1 .. en
LeftNested(fn, items) ==
    IF Len(items) = 1 THEN items[1]
    ELSE DynamicOf(<<fn, LeftNested(fn, Front(items)), items[Len(items)]>>)

RECURSIVE LeftFold(_, _)
\* the left fold of fn over the non-empty items
LeftFold(fn, items) ==
    IF Len(items) = 1 THEN items[1]
    ELSE Eval(DynamicOf(<<fn, LeftFold(fn, Front(items)), items[Len(items)]>>))

\* the resolve call c is one of a reduce over an array of concrete values
IsReduceCall(c) ==
    /\ c.call
    /\ c.dyn.v.args[1].k = "Identifier"
    /\ c.dyn.v.args[1].v = "reduce"
    /\ Len(c.dyn.v.args) = 3
    /\ c.dyn.v.args[3].k = "Array"
    /\ ~contains_dynamics(c.dyn.v.args[3])

\* C11: reduce over [e1, ..., en] with n >= 2 resolves to the left-nested dynamic
\* (fn (... (fn (fn e1 e2) e3) ...) en), whose inner calls are resolved before the
\* outer ones, so the final value is the left fold of fn; over a one-element array it
\* resolves to e1 without invoking fn; over an empty array it resolves to Undefined.
C11_ReduceLeftFold ==
    /\ IsReduceCall(last) =>
          last.result = (IF Len(last.dyn.v.args[3].v) = 0 THEN Undefined
                         ELSE LeftNested(last.dyn.v.args[2], last.dyn.v.args[3].v))
    /\ input \in ReduceInputs =>
          /\ pc # "panic"
          /\ last.call => \A i \in DOMAIN last.dyn.v.args : last.dyn.v.args[i].k # "Dynamic"
          /\ pc = "done" =>
                /\ output = (IF Len(input.v[sq_].v.args[3].v) = 0 THEN Object(EmptyMap)
                             ELSE Obj1(sq_, LeftFold(Callable(input.v[sq_].v.args[2]),
                                                     input.v[sq_].v.args[3].v)))
                /\ Len(input.v[sq_].v.args[3].v) <= 1 => resolves = 1

\* 5 - 2 - 1 folded from the left is 2 (from the right it would be 4)
C11_Witness ==
    /\ input = Obj1(sq_, Dyn(<<Id("reduce"), Sub2, Array(<<IntV(5), IntV(2), IntV(1)>>)>>))
    /\ pc = "done"
    /\ output = Obj1(sq_, IntV(2))

\* the ref at key r has just been resolved
RefResolved ==
    /\ last.call
    /\ last.path = <<Key(r_)>>
    /\ is_ref(last.dyn.v)

Three3 == Obj2(imp_, Obj1(n_, IntV(3)), r_, IntV(3))

\* C12: a ref with the absolute literal target imp.n, where the value at key imp is a
\* dynamic that resolves to an object {"n": (sum 1 2)} still containing a dynamic, is
\* not resolved while imp is a Dynamic and not while imp.n contains a Dynamic; in
\* every visiting order it is resolved afterwards and yields 3: no run fails, every
\* for loop that ends has resolved something, three resolves are all there are, and
\* the value returned has 3 at r.
C12_LateRef ==
    input \in LateRefInputs =>
        /\ pc # "panic"
        /\ RefResolved =>
              /\ abs_fetch(<<Key(imp_)>>, root).k = "Object"
              /\ ~contains_dynamics(abs_fetch(<<Key(imp_), Key(n_)>>, root))
              /\ last.result = IntV(3)
        /\ (pc = "iter" /\ todo = {}) => progressing
        /\ resolves <= 3
        /\ pc = "done" => (output = Three3 /\ resolves = 3)

\* the ref of the importing document has been resolved to 3, after the import and
\* after the sum the imported tree brought
C12_Witness ==
    /\ input = ImportRef
    /\ RefResolved
    /\ last.result = IntV(3)
    /\ resolves = 3

RECURSIVE NearestExisting(_)
\* the node at the longest proper prefix of path that can be fetched, the root for
\* the empty prefix
NearestExisting(path) ==
    IF Len(path) = 0 THEN root
    ELSE IF abs_fetch(Pop(path), root).k # "None" THEN abs_fetch(Pop(path), root)
    ELSE NearestExisting(Pop(path))

Dangling == "You are referencing something that doesn't exist"

\* the pending refs about to be visited
PendingRefs ==
    {p \in todo : abs_fetch(p, root).k = "Dynamic" /\ is_ref(abs_fetch(p, root).v)}

\* C13: when the absolute-ised target of a ref's literal dependency cannot be fetched,
\* the outcome depends only on the nearest existing ancestor of the target path, the
\* document root included: if that ancestor is a Dynamic the dependency counts as
\* live, otherwise the run aborts with the dangling-reference failure.
C13_NearestAncestor ==
    pc = "iter" =>
        \A p \in PendingRefs :
            \A i \in DOMAIN abs_fetch(p, root).v.dependencies :
                abs_fetch(make_absolute(p, abs_fetch(p, root).v.dependencies[i]), root).k = "None"
                => dep_live(p, abs_fetch(p, root).v, abs_fetch(p, root).v.dependencies[i], root)
                   = (IF NearestExisting(make_absolute(p, abs_fetch(p, root).v.dependencies[i])).k
                         = "Dynamic"
                      THEN Bool(TRUE) ELSE Panic(Dangling))

RECURSIVE HasLeftover(_)
\* an Identifier or a Dynamic is in x: x itself, or nested in its arrays and objects
HasLeftover(x) ==
    CASE x.k \in {"Identifier", "Dynamic"} -> TRUE
      [] x.k = "Array" -> \E i \in DOMAIN x.v : HasLeftover(x.v[i])
      [] x.k = "Object" -> \E key \in DOMAIN x.v : HasLeftover(x.v[key])
      [] OTHER -> FALSE

\* C14: if the tree left by the resolve loop contains an Identifier or a Dynamic
\* anywhere, at the root or nested at any depth inside an Array or Object, projection
\* to JSON fails with a fatal error; such a node is never silently dropped.
C14_LeftoverFails ==
    (pc \in {"project", "done"} /\ HasLeftover(root)) => pc # "done"

\* the values for which if selects its third operand
Falsy(c) ==
    \/ c.k \in {"Null", "Undefined"}
    \/ c.k = "Bool" /\ ~c.v
    \/ c.k = "Int" /\ c.v = 0
    \/ c.k = "Float" /\ c.v.n = 0 /\ c.v.d # 0
    \/ c.k \in {"String", "Array"} /\ Len(c.v) = 0
    \/ c.k = "Object" /\ DOMAIN c.v = {}

\* C15: (if c t e) selects e when the resolved c is Null, Undefined, Bool false,
\* Int 0, Float 0.0, the empty string, the empty array or the empty object, and
\* selects t for every other resolved value of c; the kind of c never makes if fail.
C15_Truthiness ==
    (IsIfCall(last) /\ Len(last.dyn.v.args) = 4) =>
        last.result = (IF Falsy(last.dyn.v.args[2]) THEN last.dyn.v.args[4]
                       ELSE last.dyn.v.args[3])

\* the resolve call c is one of the builtin op
IsOpCall(c, ops) ==
    /\ c.call
    /\ c.dyn.v.args[1].k = "Identifier"
    /\ c.dyn.v.args[1].v \in ops

Operands(c) == Tail(c.dyn.v.args)
AllNumeric(args) == \A i \in DOMAIN args : args[i].k \in {"Int", "Float"}
AllInt(args) == \A i \in DOMAIN args : args[i].k = "Int"

\* a number as a pair numerator, denominator (not reduced)
Rat(x) == IF x.k = "Int" THEN <<x.v, 1>> ELSE <<x.v.n, x.v.d>>
RatOp(op, p, q) ==
    CASE op = "sum" -> <<p[1] * q[2] + q[1] * p[2], p[2] * q[2]>>
      [] op = "sub" -> <<p[1] * q[2] - q[1] * p[2], p[2] * q[2]>>
      [] op = "mul" -> <<p[1] * q[1], p[2] * q[2]>>
      [] OTHER -> <<p[1] * q[2], p[2] * q[1]>>

\* ((x1 op x2) op x3) ... as a pair
RECURSIVE RatFold(_, _)
RatFold(op, args) ==
    IF Len(args) = 1 THEN Rat(args[1])
    ELSE RatOp(op, RatFold(op, Front(args)), Rat(args[Len(args)]))

SameRat(p, q) == p[1] * q[2] = q[1] * p[2]

\* the quotient of a by b truncated toward zero, and the remainder that goes with it
IsQuotient(q, a, b) ==
    /\ Abs(q * b) <= Abs(a)
    /\ Abs(a) - Abs(q * b) < Abs(b)
    /\ q # 0 => Sign(q) = Sign(a) * Sign(b)
IsRemainder(r, a, b) == \E q \in -Abs(a)..Abs(a) : IsQuotient(q, a, b) /\ r = a - q * b

ZeroDivisor(z) == Rat(z)[1] = 0

\* C16: sum and mul left-fold all their operands with + and *, and sub, div and mod
\* apply the binary operator to their two operands; the result is an Int when every
\* operand is an Int (the quotient of div truncated toward zero, so (sum 1 2 3) = 6
\* and (div 10 4) = 2) and a Float as soon as one operand is a Float.
C16_Arithmetic ==
    /\ (IsOpCall(last, {"sum", "mul"}) /\ Len(Operands(last)) >= 1
            /\ AllNumeric(Operands(last))) =>
          /\ last.result.k = (IF AllInt(Operands(last)) THEN "Int" ELSE "Float")
          /\ SameRat(Rat(last.result), RatFold(last.dyn.v.args[1].v, Operands(last)))
    /\ (IsOpCall(last, PairOps) /\ Len(Operands(last)) = 2 /\ AllNumeric(Operands(last))
            /\ ~ZeroDivisor(Operands(last)[2])) =>
          LET op == last.dyn.v.args[1].v
              a == Operands(last)[1]
              b == Operands(last)[2]
          IN /\ last.result.k = (IF AllInt(Operands(last)) THEN "Int" ELSE "Float")
             /\ op = "sub" => SameRat(Rat(last.result), RatOp("sub", Rat(a), Rat(b)))
             /\ (op = "div" /\ ~AllInt(Operands(last))) =>
                    SameRat(Rat(last.result), RatOp("div", Rat(a), Rat(b)))
             /\ (op = "div" /\ AllInt(Operands(last))) => IsQuotient(last.result.v, a.v, b.v)
             /\ (op = "mod" /\ AllInt(Operands(last))) => IsRemainder(last.result.v, a.v, b.v)
    /\ input = NumCall("sum", <<IntV(1), IntV(2), IntV(3)>>) /\ pc = "done" =>
          output = Obj1(x_, IntV(6))
    /\ input = NumCall("div", <<IntV(10), IntV(4)>>) /\ pc = "done" =>
          output = Obj1(x_, IntV(2))

C16_Witness ==
    /\ input = NumCall("div", <<IntV(-7), FloatV(5, 2)>>)
    /\ pc = "done"
    /\ output = Obj1(x_, FloatV(-14, 5))

\* C17: for every numeric first operand a, (div a z) and (mod a z) with z equal to
\* Int 0 or Float 0.0 abort the run with a fatal error; neither ever produces a value
\* (no infinity, NaN or null reaches the output).
C17_ZeroDivisorFatal ==
    (IsOpCall(last, {"div", "mod"}) /\ Len(Operands(last)) = 2 /\ AllNumeric(Operands(last))
        /\ ZeroDivisor(Operands(last)[2])) =>
            /\ IsPanic(last.result)
            /\ pc # "done"

\* C18: sum, mul, min and max abort with a fatal error whenever any operand is not an
\* Int or a Float, for every operand count >= 1 (a single non-numeric operand
\* included), and abort when called with zero operands; they never return a
\* non-numeric value.
C18_NonNumericFatal ==
    IsOpCall(last, FoldOps) =>
        /\ (Len(Operands(last)) = 0 \/ ~AllNumeric(Operands(last))) => IsPanic(last.result)
        /\ ~IsPanic(last.result) => last.result.k \in {"Int", "Float"}

\* how many positions of the array arr hold x, how many keys of the object obj do
Occurrences(arr, x) == Cardinality({i \in DOMAIN arr.v : arr.v[i] = x})
Holders(obj, x) == Cardinality({q \in DOMAIN obj.v : obj.v[q] = x})

\* C19: a dynamic (keys o), respectively (values o), whose operand is an object of
\* concrete values resolves to an array that contains exactly the keys of o as
\* strings, respectively exactly the values of o, each once, in unspecified order; a
\* non-object operand is a fatal error.
C19_KeysValues ==
    (IsOpCall(last, {"keys", "values"}) /\ Len(Operands(last)) = 1) =>
        LET o == Operands(last)[1]
            r == last.result
        IN IF o.k # "Object" THEN IsPanic(r)
           ELSE /\ r.k = "Array"
                /\ Len(r.v) = Cardinality(DOMAIN o.v)
                /\ last.dyn.v.args[1].v = "keys" =>
                      \A q \in DOMAIN o.v : Occurrences(r, String(q)) = 1
                /\ last.dyn.v.args[1].v = "values" =>
                      \A q \in DOMAIN o.v : Occurrences(r, o.v[q]) = Holders(o, o.v[q])

\* an iteration of the resolve loop has visited every path of its clone and has
\* resolved at least one dynamic
IterationDone == pc = "iter" /\ todo = {} /\ progressing

\* C20 as stated: for every iteration of the resolve loop that resolves at least one
\* dynamic, the size of the pending set at the end of the iteration is less than or
\* equal to its size at the start of the iteration.
C20_NonIncreasing ==
    IterationDone => Cardinality(dynamic_paths) <= Cardinality(cloned)

\* every pending path is a path of the clone or lies below one
WithinClone == \A q \in dynamic_paths : \E p \in cloned : starts_with(q, p)

\* the step is a pass of the for body that resolves a dynamic to a value holding no
\* dynamic
ResolvesToConcrete ==
    /\ pc = "iter"
    /\ pc' = "iter"
    /\ last'.call
    /\ ~contains_dynamics(abs_fetch(last'.path, root'))

\* C20, amended: during every iteration of the resolve loop each pending path was
\* pending at the start of the iteration or lies below a path that was; a resolve
\* whose value holds no dynamic takes its path out of the pending set and adds none.
\* The size of the pending set can grow over an iteration that resolves a dynamic: a
\* map of a definition over three elements leaves three pending dynamics for one.
C20_PendingWithinClone ==
    /\ [](pc = "iter" => WithinClone)
    /\ [][ResolvesToConcrete =>
              /\ last'.path \notin dynamic_paths'
              /\ dynamic_paths' \subseteq dynamic_paths
              /\ Cardinality(dynamic_paths') < Cardinality(dynamic_paths)]_vars

C20_Witness ==
    /\ input = DefMap3
    /\ IterationDone
    /\ Cardinality(cloned) = 1
    /\ Cardinality(dynamic_paths) = 3

\* one chunk of a relative target applied to a path
Step(out, chunk) ==
    IF chunk = Parent THEN (IF Len(out) = 0 THEN out ELSE Front(out))
    ELSE out \o <<chunk>>

\* self transformed by chunks, in order
RECURSIVE Transformed(_, _)
Transformed(self, chunks) ==
    IF Len(chunks) = 0 THEN self
    ELSE Step(Transformed(self, Front(chunks)), chunks[Len(chunks)])

PathReturned == pc = "returned"

RECURSIVE Power(_, _)
Power(a, e) == IF e = 0 THEN 1 ELSE Power(a, e - 1) * a

IsPowCall(c) ==
    /\ IsOpCall(c, {"pow"})
    /\ Len(Operands(c)) = 2
    /\ AllNumeric(Operands(c))
    /\ pow_covered(Operands(c)[1], Operands(c)[2])

\* C22: (pow a b) with Int a and Int b >= 0 yields the Int a^b, with (pow a 0) = 1; in
\* every other case (a Float operand, or a negative exponent) the result is a Float.
C22_Pow ==
    IsPowCall(last) =>
        LET a == Operands(last)[1]
            b == Operands(last)[2]
        IN IF a.k = "Int" /\ b.k = "Int" /\ b.v >= 0
           THEN last.result = IntV(Power(a.v, b.v))
           ELSE last.result.k = "Float"

\* C23: at every point where the resolve loop fetches a path taken from the pending
\* set, including paths of the clone made at the start of the iteration after other
\* dynamics were resolved in that same iteration, the path exists in the tree and the
\* node there is a Dynamic.
C23_PendingFetchable ==
    pc = "iter" => \A p \in todo : abs_fetch(p, root).k = "Dynamic"

RECURSIVE DynamicsIn(_, _)
\* the Dynamics reachable from x, which sits at path, through array elements, object
\* values and operands of dynamics, each with its location; templates are not entered
DynamicsIn(x, path) ==
    CASE x.k = "Dynamic" ->
            {[at |-> path, node |-> x]}
            \cup UNION {DynamicsIn(x.v.args[i], Append(path, Argument(i - 1))) :
                            i \in DOMAIN x.v.args}
      [] x.k = "Array" ->
            UNION {DynamicsIn(x.v[i], Append(path, Index(i - 1))) : i \in DOMAIN x.v}
      [] x.k = "Object" ->
            UNION {DynamicsIn(x.v[key], Append(path, Key(key))) : key \in DOMAIN x.v}
      [] OTHER -> {}

\* C24: after the initial preprocessing and after every resolve step, every Dynamic
\* reachable from the root through Array elements, Object values and dynamic operands
\* (outside Definition templates) has its location in the pending set and a path field
\* equal to that location, so the resolve loop cannot exit while the tree still holds
\* such a Dynamic.
C24_DynamicsPending ==
    /\ pc \in {"loop", "iter"} =>
          \A d \in DynamicsIn(root, <<>>) : d.at \in dynamic_paths /\ d.node.v.path = d.at
    /\ pc \in {"project", "done"} => DynamicsIn(root, <<>>) = {}

\* a definition call has been resolved to the dynamic of its template, which is
\* pending at the place of the call
C24_Witness ==
    /\ pc = "iter"
    /\ last.call
    /\ last.dyn.v.args[1].k = "Definition"
    /\ last.result.k = "Dynamic"
    /\ last.path \in dynamic_paths
    /\ abs_fetch(last.path, root).v.path = last.path

RECURSIVE DefinitionsIn(_, _)
\* the locations of the Definitions reachable from x, which sits at path
DefinitionsIn(x, path) ==
    CASE x.k = "Definition" -> {path}
      [] x.k = "Dynamic" ->
            UNION {DefinitionsIn(x.v.args[i], Append(path, Argument(i - 1))) :
                       i \in DOMAIN x.v.args}
      [] x.k = "Array" ->
            UNION {DefinitionsIn(x.v[i], Append(path, Index(i - 1))) : i \in DOMAIN x.v}
      [] x.k = "Object" ->
            UNION {DefinitionsIn(x.v[key], Append(path, Key(key))) : key \in DOMAIN x.v}
      [] OTHER -> {}

\* C25: a def dynamic is replaced by its Definition during preprocessing and is never
\* visited by the resolve loop: after any preprocess call, initial or following a
\* resolve step, the pending set contains neither the path of a Definition nor any
\* path that has a Definition's path as a prefix.
C25_DefinitionsNotPending ==
    /\ (last.call /\ last.dyn.v.args[1].k = "Identifier") => last.dyn.v.args[1].v # "def"
    /\ pc \in {"loop", "iter"} =>
          \A q \in dynamic_paths : \A d \in DefinitionsIn(root, <<>>) : ~starts_with(q, d)

\* the resolve call c has a Definition as its head
IsDefinitionCall(c) == c.call /\ c.dyn.v.args[1].k = "Definition"

DistinctNames(names) == \A i, j \in DOMAIN names : names[i] = names[j] => i = j

RECURSIVE Instance(_, _, _)
\* x with every Identifier named names[i] replaced by operands[i]
Instance(x, names, operands) ==
    CASE x.k = "Identifier" ->
            IF \E i \in DOMAIN names : names[i] = x.v
            THEN operands[CHOOSE i \in DOMAIN names : names[i] = x.v]
            ELSE x
      [] x.k = "Array" -> [x EXCEPT !.v = [i \in DOMAIN x.v |-> Instance(x.v[i], names, operands)]]
      [] x.k = "Object" ->
            [x EXCEPT !.v = [key \in DOMAIN x.v |-> Instance(x.v[key], names, operands)]]
      [] x.k = "Definition" ->
            [x EXCEPT !.v.template = Instance(x.v.template, names, operands)]
      [] x.k = "Dynamic" ->
            [x EXCEPT !.v.args = [i \in DOMAIN x.v.args |->
                                     Instance(x.v.args[i], names, operands)]]
      [] OTHER -> x

RECURSIVE Without(_, _)
\* the tree x with the subtree at path p taken out (Null stands in its place)
Without(x, p) ==
    IF Len(p) = 0 THEN Null
    ELSE LET next == Head(p)
         IN CASE next.c = "Key" /\ x.k = "Object" /\ next.s \in DOMAIN x.v ->
                    [x EXCEPT !.v[next.s] = Without(x.v[next.s], Tail(p))]
              [] next.c = "Index" /\ x.k = "Array" /\ next.n < Len(x.v) ->
                    [x EXCEPT !.v[next.n + 1] = Without(x.v[next.n + 1], Tail(p))]
              [] next.c = "Argument" /\ x.k = "Dynamic" /\ next.n < Len(x.v.args) ->
                    [x EXCEPT !.v.args[next.n + 1] = Without(x.v.args[next.n + 1], Tail(p))]
              [] OTHER -> x

\* the step is a pass of the for body that resolves a dynamic
ResolveStep == pc = "iter" /\ last'.call

\* C27: a resolve step of the dynamic at path p changes only the subtree at p: every
\* node located at a path that does not have p as a prefix (siblings, other children
\* of the ancestors, the shape and key set of every containing Array or Object) is
\* identical before and after the step.
C27_Frame ==
    [][ResolveStep => Without(root', last'.path) = Without(root, last'.path)]_vars

\* a dynamic two levels down has been resolved to a new value while another dynamic
\* of the tree is still pending
C27_Witness ==
    /\ pc = "iter"
    /\ last.call
    /\ Len(last.path) >= 2
    /\ abs_fetch(last.path, root) # last.dyn
    /\ \E q \in dynamic_paths : ~starts_with(q, last.path) /\ ~starts_with(last.path, q)

\* C28: for every finite input tree that uses no import/include, the resolve loop
\* terminates after finitely many iterations, either returning a tree or aborting with
\* a fatal error; no input (in particular no definition that invokes itself through a
\* ref) makes every iteration resolve a dynamic forever.  A run that ends makes fewer
\* than MaxResolves resolve calls; a run that reaches MaxResolves never ends.
C28_Terminates ==
    ~UsesFiles(input) => resolves < MaxResolves

\* C29: no path handed to abs_fetch during evaluation holds a Parent chunk, whatever the
\* reference string it was made from, so no run aborts with 'Absolute path fetching
\* needs an absolute path'.
C29_NoParentFetched ==
    ~(pc = "panic" /\ err = "Absolute path fetching needs an absolute path")

\* the path holds no Argument chunk
NoArgument(path) == \A i \in 1..Len(path) : path[i].c # "Argument"

\* the refs resolved so far whose absolute target holds no Argument chunk
PlainFetches == {e \in refs_fetched : NoArgument(e.target)}

\* C30: a ref with a literal target whose absolute path holds no Argument chunk is
\* resolved to a value that holds no Dynamic, and no later resolve step modifies the
\* subtree at the target: at every later point of the run, and in particular in the
\* tree evaluate_raw returns, the value at the target path is the value the ref was
\* replaced by.
C30_RefStable ==
    \A e \in PlainFetches :
        /\ DynamicsIn(e.value, <<>>) = {}
        /\ abs_fetch(e.target, root) = e.value

\* the run has returned a tree after it resolved a ref to a container and, in another
\* step, a dynamic that is not a ref
C30_Witness ==
    /\ pc = "done"
    /\ resolves >= 2
    /\ \E e \in PlainFetches : e.value.k \in {"Object", "Array"}

====
